---- MODULE Spec2Model ----
(***************************************************************************)
(* guiqwt.cross_section: the cross-section panel (CrossSectionPlot), its   *)
(* curve items (CrossSectionItem) and the image plots, markers and shapes  *)
(* it listens to.  Signals are delivered synchronously (Qt direct          *)
(* connections), so every action below is one event together with the      *)
(* whole handler the panel runs for it.                                     *)
(***************************************************************************)
EXTENDS Integers, Sequences, FiniteSets, TLC

\* ---------------------------------------------------------------- universe
Plots == {"p1", "p2"}            \* the image plots of the plot manager
NoPlot == "noplot"               \* item.plot() is None
Images == {"i1", "i2"}           \* ImageItem objects (ICSImageItemType)
Others == {"c1"}                 \* a plot item that is no image (a curve, a grid)
Items == Images \cup Others
NoImg == "noimg"                 \* None instead of a source image
Markers == {"m1"}                \* Marker objects: no get_rect, no annotationparam
Shapes == {"s1"}                 \* AnnotatedRectangle objects: get_rect
Objs == Markers \cup Shapes
NoObj == "noobj"                 \* None instead of a marker or shape
Kinds == {"x", "y", "ra"}        \* XCrossSectionPlot, YCrossSectionPlot, RACrossSectionPlot

\* Positions 0..MaxPos stand for the marker coordinate / the rectangle of a
\* shape; the last one, MaxPos, lies outside every image (or is a rectangle
\* too small to sample).
MaxPos == 1
\* The contrast (LUT) settings of the images, taken together: 0..MaxLut
MaxLut == 1
RawLut == 0 - 1                  \* the value sampled without LUT

\* Iteration order of a Python 2 dict keyed by the item objects: fixed for a
\* given set of keys, unrelated to the insertion order.
DictOrder == <<"i1", "i2", "c1">>

VARIABLES
    env,    \* the presentation layer: plots, items, markers, shapes
    cs,     \* the CrossSectionPlot and its curve items
    item,   \* a CrossSectionItem used on its own, outside known_items
    fx,     \* what the last handler did besides changing cs and item
    py      \* the module globals of pyplot and its Figure objects

vars == <<env, cs, item, fx, py>>

\* ------------------------------------------------------------ CrossSectionItem
EmptyData == [x |-> <<>>, y |-> <<>>]

\* CrossSectionItem.__init__ of an XCrossSectionItem ("x"), YCrossSectionItem
\* ("y") or RACrossSectionItem ("ra"): no source, on no plot
NewItem(kind) ==
    [kind |-> kind, source |-> NoImg, attached |-> FALSE, visible |-> TRUE,
     perimage_mode |-> TRUE, autoscale_mode |-> TRUE, apply_lut |-> FALSE,
     data |-> EmptyData]

\* CrossSectionItem.set_source_image
set_source_image(curve, src) == [curve EXCEPT !.source = src]

\* weakref.ref(src)(): the image, or None once it has been collected
get_source_image(curve, e) ==
    IF curve.source = NoImg THEN NoImg
    ELSE IF e.imgAlive[curve.source] THEN curve.source ELSE NoImg

get_rectangular_area(obj) == obj \in Shapes

Degenerate(pos) == pos = MaxPos

\* guiqwt.image: BaseImageItem.get_xsection / get_ysection (avg = FALSE, the
\* row or column at the object's coordinate) and get_average_xsection /
\* get_average_ysection (avg = TRUE, the mean over the object's rectangle)
get_source_section(avg, src, e, obj, apply_lut) ==
    IF src = NoImg THEN [raised |-> TRUE, x |-> <<>>, y |-> <<>>]
    ELSE IF Degenerate(e.objPos[obj]) THEN [raised |-> FALSE, x |-> <<>>, y |-> <<>>]
    ELSE [raised |-> FALSE,
          x |-> <<e.objPos[obj]>>,
          y |-> << [mode |-> "image", avg |-> avg,
                    from |-> src, items |-> {},
                    lut |-> IF apply_lut THEN e.lut ELSE RawLut] >>]

\* the section of the source image that fits the object
SourceSection(src, e, obj, apply_lut) ==
    get_source_section(get_rectangular_area(obj), src, e, obj, apply_lut)

\* the ImageItem objects of a plot that get_image_data samples
PlanarItems(e, plot) == {i \in Images : e.itemPlot[i] = plot}

\* get_plot_x_section / get_plot_y_section (avg = FALSE) and
\* get_plot_average_x_section / get_plot_average_y_section (avg = TRUE).
\* obj.plot() is used at once, so an object on no
\* plot fails; get_image_data returns None for a plot without image and
\* data.mean(...) then fails outside the try block; ValueError and
\* ZeroDivisionError of the sampling give the empty profile.
PlotSectionNoGuard(avg, e, obj, apply_lut) ==
    LET plot == e.objPlot[obj]
        items == PlanarItems(e, plot)
    IN  IF Degenerate(e.objPos[obj]) THEN [raised |-> FALSE, x |-> <<>>, y |-> <<>>]
        ELSE [raised |-> FALSE,
              x |-> <<e.objPos[obj]>>,
              y |-> << [mode |-> "plot", avg |-> avg,
                        from |-> plot, items |-> items,
                        lut |-> IF apply_lut THEN e.lut ELSE RawLut] >>]

get_plot_section(avg, e, obj, apply_lut) ==
    IF e.objPlot[obj] = NoPlot \/ PlanarItems(e, e.objPlot[obj]) = {}
    THEN [raised |-> TRUE, x |-> <<>>, y |-> <<>>]
    ELSE PlotSectionNoGuard(avg, e, obj, apply_lut)

\* the section of the plot that fits the object
PlotSection(e, obj, apply_lut) ==
    get_plot_section(get_rectangular_area(obj), e, obj, apply_lut)

\* get_cross_section with the point extractors for every object
get_cross_section_point(curve, e, obj) ==
    IF curve.perimage_mode
    THEN get_source_section(FALSE, get_source_image(curve, e), e, obj,
                            curve.apply_lut)
    ELSE get_plot_section(FALSE, e, obj, curve.apply_lut)

\* XCrossSectionItem.get_cross_section / YCrossSectionItem.get_cross_section
get_cross_section(curve, e, obj) ==
    LET source == get_source_image(curve, e)
        rect == get_rectangular_area(obj)
    IN  IF ~rect
        THEN IF curve.perimage_mode
             THEN get_source_section(FALSE, source, e, obj, curve.apply_lut)
             ELSE get_plot_section(FALSE, e, obj, curve.apply_lut)
        ELSE IF curve.perimage_mode
             THEN get_source_section(TRUE, source, e, obj, curve.apply_lut)
             ELSE get_plot_section(TRUE, e, obj, curve.apply_lut)

\* compute_radial_section(source, *rect)
compute_radial_section(src, e, obj) ==
    IF src = NoImg THEN [raised |-> TRUE, x |-> <<>>, y |-> <<>>]
    ELSE IF Degenerate(e.objPos[obj]) THEN [raised |-> FALSE, x |-> <<>>, y |-> <<>>]
    ELSE [raised |-> FALSE,
          x |-> <<0>>,
          y |-> << [mode |-> "radial", avg |-> TRUE, from |-> src,
                    items |-> {}, lut |-> RawLut] >>]

\* _inverted left False in every class
Inverted_never(kind) == FALSE

\* XCrossSectionItem._inverted / YCrossSectionItem._inverted
Inverted(kind) == kind = "y"

\* A sample that is not a number (a NaN pixel, or a mean over NaN pixels)
NaN == [mode |-> "nan"]
IsNaN(v) == v.mode = "nan"

\* np.all(np.isnan(secty))
AllNaN(secty) == \A k \in 1..Len(secty) : IsNaN(secty[k])

\* set_section with "any sample is NaN" in the place of "all samples are NaN"
set_section_any(curve, sectx, secty) ==
    IF Len(secty) = 0 \/ \E k \in 1..Len(secty) : IsNaN(secty[k])
    THEN [curve EXCEPT !.data = EmptyData]
    ELSE IF Inverted(curve.kind)
    THEN [curve EXCEPT !.data = [x |-> secty, y |-> sectx]]
    ELSE [curve EXCEPT !.data = [x |-> sectx, y |-> secty]]

\* the end of update_curve_data: the empty / all-NaN fallback and set_data
set_section(curve, sectx, secty) ==
    IF Len(secty) = 0 \/ AllNaN(secty)
    THEN [curve EXCEPT !.data = EmptyData]
    ELSE IF Inverted(curve.kind)
    THEN [curve EXCEPT !.data = [x |-> secty, y |-> sectx]]
    ELSE [curve EXCEPT !.data = [x |-> sectx, y |-> secty]]

\* update_curve_data with a radial item that clears its curve when the target
\* has no rectangle
update_curve_data_clearing(curve, e, obj) ==
    IF curve.kind = "ra"
    THEN IF get_rectangular_area(obj)
         THEN LET s == compute_radial_section(get_source_image(curve, e), e, obj)
              IN  IF s.raised THEN [raised |-> TRUE, curve |-> curve]
                  ELSE [raised |-> FALSE, curve |-> set_section(curve, s.x, s.y)]
         ELSE [raised |-> FALSE, curve |-> [curve EXCEPT !.data = EmptyData]]
    ELSE LET s == get_cross_section(curve, e, obj)
         IN  IF s.raised THEN [raised |-> TRUE, curve |-> curve]
             ELSE [raised |-> FALSE, curve |-> set_section(curve, s.x, s.y)]

\* CrossSectionItem.update_curve_data / RACrossSectionItem.update_curve_data
update_curve_data(curve, e, obj) ==
    IF curve.kind = "ra"
    THEN IF get_rectangular_area(obj)
         THEN LET s == compute_radial_section(get_source_image(curve, e), e, obj)
              IN  IF s.raised THEN [raised |-> TRUE, curve |-> curve]
                  ELSE [raised |-> FALSE, curve |-> set_section(curve, s.x, s.y)]
         ELSE [raised |-> FALSE, curve |-> curve]
    ELSE LET s == get_cross_section(curve, e, obj)
         IN  IF s.raised THEN [raised |-> TRUE, curve |-> curve]
             ELSE [raised |-> FALSE, curve |-> set_section(curve, s.x, s.y)]

\* XCrossSectionItem.update_scale / YCrossSectionItem.update_scale /
\* RACrossSectionItem.update_scale: source.plot().axisScaleDiv(...) needs a
\* live source that is on a plot
update_scale_raises(curve, e) ==
    /\ curve.kind # "ra"
    /\ \/ get_source_image(curve, e) = NoImg
       \/ e.itemPlot[curve.source] = NoPlot

ItemNoop(curve) ==
    [curve |-> curve, emitted |-> <<>>, rescaled |-> <<>>, raised |-> FALSE]

\* update_item without the test of the source image
update_item_unchecked(curve, e, obj) ==
    IF ~curve.attached \/ ~e.visible THEN ItemNoop(curve)
    ELSE LET u == update_curve_data(curve, e, obj)
         IN  IF u.raised
             THEN [curve |-> curve, emitted |-> <<>>, rescaled |-> <<>>,
                   raised |-> TRUE]
             ELSE [curve |-> u.curve, emitted |-> <<curve.source>>,
                   rescaled |-> <<>>,
                   raised |-> ~curve.autoscale_mode /\ update_scale_raises(curve, e)]

\* CrossSectionItem.update_item
update_item(curve, e, obj) ==
    IF ~curve.attached THEN ItemNoop(curve)
    ELSE IF get_source_image(curve, e) = NoImg \/ ~e.visible THEN ItemNoop(curve)
    ELSE LET u == update_curve_data(curve, e, obj)
         IN  IF u.raised
             THEN [curve |-> curve, emitted |-> <<>>, rescaled |-> <<>>,
                   raised |-> TRUE]
             ELSE IF curve.autoscale_mode
             THEN [curve |-> u.curve, emitted |-> <<curve.source>>,
                   rescaled |-> <<>>, raised |-> FALSE]
             ELSE IF update_scale_raises(curve, e)
             THEN [curve |-> u.curve, emitted |-> <<curve.source>>,
                   rescaled |-> <<>>, raised |-> TRUE]
             ELSE [curve |-> u.curve, emitted |-> <<curve.source>>,
                   rescaled |-> IF curve.kind = "ra" THEN <<>> ELSE <<curve.source>>,
                   raised |-> FALSE]

\* ------------------------------------------------------------ CrossSectionPlot
\* CrossSectionPlot.__init__
NewPlot(kind) ==
    [kind |-> kind,
     perimage_mode |-> TRUE, autoscale_mode |-> TRUE, apply_lut |-> FALSE,
     last_obj |-> NoObj,
     known_items |-> <<>>,
     shapes |-> [p \in Plots |-> <<>>],
     label_visible |-> TRUE]

\* fx.handler is the entry point that ran last: "update_plot" (update_plot(obj),
\* marker_changed), "refresh" (update_plot() from the refresh action and the
\* toggles), "lut_changed", "shape_changed" (also active_item_changed),
\* "register_shape", "unregister_shape", "items_changed", or "env" when the
\* panel was not called at all.
NoFx(name, arg) ==
    [handler |-> name, arg |-> arg, emitted |-> <<>>, rescaled |-> <<>>,
     autoscaled |-> 0, touched |-> {}, raised |-> FALSE]

InSeq(x, s) == \E k \in 1..Len(s) : s[k] = x

\* CrossSectionPlot.is_shape_known
is_shape_known(c, shape) == \E p \in Plots : InSeq(shape, c.shapes[p])

\* list.pop(list.index(shape)): the first occurrence goes
PopFirst(s, x) ==
    LET k == CHOOSE j \in 1..Len(s) : s[j] = x /\ \A m \in 1..(j-1) : s[m] # x
    IN  [j \in 1..(Len(s)-1) |-> IF j < k THEN s[j] ELSE s[j+1]]

\* `for plot in self._shapes`: the plots in dict order
PlotOrder == <<"p1", "p2">>

\* CrossSectionPlot.unregister_shape
unregister_shape(c, shape) ==
    IF ~is_shape_known(c, shape) THEN c
    ELSE LET k == CHOOSE j \in 1..Len(PlotOrder) :
                    /\ InSeq(shape, c.shapes[PlotOrder[j]])
                    /\ \A m \in 1..(j-1) : ~InSeq(shape, c.shapes[PlotOrder[m]])
             p == PlotOrder[k]
         IN  [c EXCEPT !.shapes[p] = PopFirst(c.shapes[p], shape)]

\* CrossSectionPlot.get_last_obj
get_last_obj(c, e) ==
    IF c.last_obj = NoObj THEN NoObj
    ELSE IF e.alive[c.last_obj] THEN c.last_obj ELSE NoObj

\* the loop of update_plot with the curves keeping the apply_lut value they had
RECURSIVE update_curves_stale(_, _, _, _, _)
update_curves_stale(c, e, obj, index, acc) ==
    IF index > Len(acc.items) \/ acc.raised THEN acc
    ELSE IF ~c.perimage_mode /\ index > 1
    THEN update_curves_stale(c, e, obj, index + 1,
                       [acc EXCEPT !.items[index].curve.visible = FALSE])
    ELSE LET shown == [acc.items[index].curve EXCEPT
                          !.visible = TRUE,
                          !.perimage_mode = c.perimage_mode,
                          !.autoscale_mode = c.autoscale_mode]
             r == update_item(shown, e, obj)
         IN  update_curves_stale(c, e, obj, index + 1,
                 [items |-> [acc.items EXCEPT ![index].curve = r.curve],
                  emitted |-> acc.emitted \o r.emitted,
                  rescaled |-> acc.rescaled \o r.rescaled,
                  raised |-> r.raised])

\* the loop of update_plot over known_items.iteritems(); it stops at the first
\* curve whose update raises
RECURSIVE update_curves(_, _, _, _, _)
update_curves(c, e, obj, index, acc) ==
    IF index > Len(acc.items) \/ acc.raised THEN acc
    ELSE IF ~c.perimage_mode /\ index > 1
    THEN update_curves(c, e, obj, index + 1,
                       [acc EXCEPT !.items[index].curve.visible = FALSE])
    ELSE LET shown == [acc.items[index].curve EXCEPT
                          !.visible = TRUE,
                          !.perimage_mode = c.perimage_mode,
                          !.autoscale_mode = c.autoscale_mode,
                          !.apply_lut = c.apply_lut]
             r == update_item(shown, e, obj)
         IN  update_curves(c, e, obj, index + 1,
                 [items |-> [acc.items EXCEPT ![index].curve = r.curve],
                  emitted |-> acc.emitted \o r.emitted,
                  rescaled |-> acc.rescaled \o r.rescaled,
                  raised |-> r.raised])

\* update_plot hiding the label before it looks for a target
update_plot_eager(c, e, objarg, name) ==
    LET obj == IF objarg = NoObj THEN get_last_obj(c, e) ELSE objarg
        c1 == IF objarg = NoObj THEN c ELSE [c EXCEPT !.last_obj = objarg]
    IN  IF obj = NoObj
        THEN [cs |-> [c EXCEPT !.label_visible = FALSE], fx |-> NoFx(name, objarg)]
        ELSE IF e.objPlot[obj] = NoPlot
        THEN [cs |-> unregister_shape(c1, obj), fx |-> NoFx(name, objarg)]
        ELSE LET r == update_curves(c1, e, obj, 1,
                          [items |-> c1.known_items, emitted |-> <<>>,
                           rescaled |-> <<>>, raised |-> FALSE])
             IN  [cs |-> [c1 EXCEPT !.label_visible = FALSE,
                                    !.known_items = r.items],
                  fx |-> [handler |-> name, arg |-> objarg,
                          emitted |-> r.emitted, rescaled |-> r.rescaled,
                          autoscaled |-> IF c1.autoscale_mode /\ ~r.raised
                                         THEN 1 ELSE 0,
                          touched |-> {}, raised |-> r.raised]]

\* update_plot recording the target only once it is known to be on a plot
update_plot_attached_only(c, e, objarg, name) ==
    LET obj == IF objarg = NoObj THEN get_last_obj(c, e) ELSE objarg
        c1 == IF objarg = NoObj THEN c ELSE [c EXCEPT !.last_obj = objarg]
    IN  IF obj = NoObj THEN [cs |-> c, fx |-> NoFx(name, objarg)]
        ELSE IF e.objPlot[obj] = NoPlot
        THEN [cs |-> unregister_shape(c, obj), fx |-> NoFx(name, objarg)]
        ELSE LET r == update_curves(c1, e, obj, 1,
                          [items |-> c1.known_items, emitted |-> <<>>,
                           rescaled |-> <<>>, raised |-> FALSE])
             IN  [cs |-> [c1 EXCEPT !.label_visible = FALSE,
                                    !.known_items = r.items],
                  fx |-> [handler |-> name, arg |-> objarg,
                          emitted |-> r.emitted, rescaled |-> r.rescaled,
                          autoscaled |-> IF c1.autoscale_mode /\ ~r.raised
                                         THEN 1 ELSE 0,
                          touched |-> {}, raised |-> r.raised]]

\* CrossSectionPlot.update_plot; objarg = NoObj is update_plot()
update_plot(c, e, objarg, name) ==
    LET obj == IF objarg = NoObj THEN get_last_obj(c, e) ELSE objarg
        c1 == IF objarg = NoObj THEN c ELSE [c EXCEPT !.last_obj = objarg]
    IN  IF obj = NoObj THEN [cs |-> c, fx |-> NoFx(name, objarg)]
        ELSE IF e.objPlot[obj] = NoPlot
        THEN [cs |-> unregister_shape(c1, obj), fx |-> NoFx(name, objarg)]
        ELSE LET r == update_curves(c1, e, obj, 1,
                          [items |-> c1.known_items, emitted |-> <<>>,
                           rescaled |-> <<>>, raised |-> FALSE])
             IN  [cs |-> [c1 EXCEPT !.label_visible = FALSE,
                                    !.known_items = r.items],
                  fx |-> [handler |-> name, arg |-> objarg,
                          emitted |-> r.emitted, rescaled |-> r.rescaled,
                          autoscaled |-> IF c1.autoscale_mode /\ ~r.raised
                                         THEN 1 ELSE 0,
                          touched |-> {}, raised |-> r.raised]]

\* plot.get_items() without the item type
CSItems_any(e, plot) == {i \in Items : e.itemPlot[i] = plot}

\* plot.get_items(item_type=ICSImageItemType)
CSItems(e, plot) == {i \in Images : e.itemPlot[i] = plot}

\* CrossSectionPlot.add_cross_section_item: the entry known_items[source]
add_cross_section_item(c, source) ==
    [key |-> source,
     curve |-> [set_source_image(NewItem(c.kind), source) EXCEPT
                   !.attached = TRUE]]

\* items_changed binding the images of every plot, not only of the given one
items_changed_every_plot(c, e, plot) ==
    [c EXCEPT !.known_items =
        LET bound == SelectSeq(DictOrder,
                               LAMBDA i : \E q \in Plots : i \in CSItems(e, q))
        IN  [k \in 1..Len(bound) |-> add_cross_section_item(c, bound[k])]]

\* items_changed ending with update_plot()
items_changed_refreshing(c, e, plot) ==
    LET bound == SelectSeq(DictOrder, LAMBDA i : i \in CSItems(e, plot))
        c1 == [c EXCEPT !.known_items =
                  [k \in 1..Len(bound) |-> add_cross_section_item(c, bound[k])]]
    IN  update_plot(c1, e, NoObj, "refresh").cs

\* CrossSectionPlot.items_changed
items_changed(c, e, plot) ==
    [c EXCEPT !.known_items =
        LET bound == SelectSeq(DictOrder, LAMBDA i : i \in CSItems(e, plot))
        IN  [k \in 1..Len(bound) |-> add_cross_section_item(c, bound[k])]]

\* shape_changed without the registry test
shape_changed_unguarded(c, e, shape, name) == update_plot(c, e, shape, name)

\* CrossSectionPlot.shape_changed
shape_changed(c, e, shape, name) ==
    IF is_shape_known(c, shape) THEN update_plot(c, e, shape, name)
    ELSE [cs |-> c, fx |-> NoFx(name, shape)]

\* CrossSectionPlot.register_shape
register_shape(c, e, plot, shape) ==
    IF InSeq(shape, c.shapes[plot])
    THEN [cs |-> c, fx |-> NoFx("register_shape", shape)]
    ELSE LET c1 == [c EXCEPT !.shapes[plot] = Append(c.shapes[plot], shape)]
             r == update_plot(c1, e, shape, "register_shape")
         IN  [cs |-> r.cs, fx |-> [r.fx EXCEPT !.touched = {shape}]]

\* lut_changed refreshing whatever the apply_lut flag says
lut_changed_always(c, e) == update_plot(c, e, NoObj, "lut_changed")

\* CrossSectionPlot.lut_changed
lut_changed(c, e) ==
    IF c.apply_lut THEN update_plot(c, e, NoObj, "lut_changed")
    ELSE [cs |-> c, fx |-> NoFx("lut_changed", NoObj)]

\* CrossSectionPlot.toggle_perimage_mode / toggle_autoscale / toggle_apply_lut
toggle_perimage_mode(c, e, state) ==
    update_plot([c EXCEPT !.perimage_mode = state], e, NoObj, "refresh")

toggle_autoscale(c, e, state) ==
    update_plot([c EXCEPT !.autoscale_mode = state], e, NoObj, "refresh")

\* toggle_apply_lut refreshing before it stores the value
toggle_apply_lut_late(c, e, state) ==
    LET r == update_plot(c, e, NoObj, "refresh")
    IN  [cs |-> [r.cs EXCEPT !.apply_lut = state], fx |-> r.fx]

toggle_apply_lut(c, e, state) ==
    update_plot([c EXCEPT !.apply_lut = state], e, NoObj, "refresh")

\* marker_changed going through the registry test like shape_changed
marker_changed_guarded(c, e, marker) ==
    shape_changed(c, e, marker, "update_plot")

\* CrossSectionPlot.marker_changed
marker_changed(c, e, marker) == update_plot(c, e, marker, "update_plot")

\* CrossSectionPlot.active_item_changed
active_item_changed(c, e, active) == shape_changed(c, e, active, "shape_changed")


\* ------------------------------------------------------------ AnnotatedShape
\* An annotated shape's rectangle is objPos.  A move is reported as the trace
\* of what the method did, in order: "shape" (the geometry was changed),
\* "label" (set_label_position), "label_moved" (label.move_local_shape) and
\* the signals it emitted.  seen holds, for each signal, the rectangle a
\* receiver reads during the emit; panel is what the cross-section panel's
\* slot did during SIG_ANNOTATION_CHANGED.
AnnotFx(name, shape, trace, seen, panel) ==
    [handler |-> name, arg |-> shape, trace |-> trace, seen |-> seen,
     panel |-> panel, raised |-> panel.raised]

\* self.plot().emit(SIG_ANNOTATION_CHANGED, self): the panel's slot
\* shape_changed runs inside the emit
emit_annotation_changed(c, e, shape) == shape_changed(c, e, shape, "shape_changed")

\* move_point_to emitting before it has moved anything
move_point_to_early(c, e, shape, pos) ==
    LET e1 == [e EXCEPT !.objPos[shape] = pos]
    IN  IF e.objPlot[shape] # NoPlot
        THEN LET r == emit_annotation_changed(c, e, shape)
             IN  [env |-> e1, cs |-> r.cs,
                  fx |-> AnnotFx("move_point_to", shape,
                                 <<"SIG_ANNOTATION_CHANGED", "shape", "label">>,
                                 <<e.objPos[shape]>>, r.fx)]
        ELSE [env |-> e1, cs |-> c,
              fx |-> AnnotFx("move_point_to", shape, <<"shape", "label">>,
                             <<>>, NoFx("shape_changed", shape))]

\* AnnotatedShape.move_point_to
move_point_to(c, e, shape, pos) ==
    LET e1 == [e EXCEPT !.objPos[shape] = pos]
    IN  IF e1.objPlot[shape] # NoPlot
        THEN LET r == emit_annotation_changed(c, e1, shape)
             IN  [env |-> e1, cs |-> r.cs,
                  fx |-> AnnotFx("move_point_to", shape,
                                 <<"shape", "label", "SIG_ANNOTATION_CHANGED">>,
                                 <<e1.objPos[shape]>>, r.fx)]
        ELSE [env |-> e1, cs |-> c,
              fx |-> AnnotFx("move_point_to", shape, <<"shape", "label">>,
                             <<>>, NoFx("shape_changed", shape))]

\* AnnotatedShape.move_shape
move_shape(c, e, shape, old_pos, new_pos) ==
    [env |-> [e EXCEPT !.objPos[shape] = @ + new_pos - old_pos],
     cs |-> c,
     fx |-> AnnotFx("move_shape", shape, <<"shape", "label_moved">>, <<>>,
                    NoFx("shape_changed", shape))]

\* AnnotatedShape.move_local_shape.  canvas_to_axes is unit scale for a shape
\* on a plot; for a shape with no plot it either gives no point, and moving
\* by it raises before anything has changed, or converts all the same
\* (converts).
move_local_shape(c, e, shape, old_pos, new_pos, converts) ==
    IF e.objPlot[shape] = NoPlot /\ ~converts
    THEN [env |-> e, cs |-> c,
          fx |-> [AnnotFx("move_local_shape", shape, <<>>, <<>>,
                          NoFx("shape_changed", shape))
                    EXCEPT !.raised = TRUE]]
    ELSE LET e1 == [e EXCEPT !.objPos[shape] = @ + new_pos - old_pos]
         IN  IF e1.objPlot[shape] # NoPlot
             THEN LET r == emit_annotation_changed(c, e1, shape)
                  IN  [env |-> e1, cs |-> r.cs,
                       fx |-> AnnotFx("move_local_shape", shape,
                                      <<"shape", "label", "SIG_ITEM_MOVED",
                                        "SIG_ANNOTATION_CHANGED">>,
                                      <<e1.objPos[shape], e1.objPos[shape]>>,
                                      r.fx)]
             ELSE [env |-> e1, cs |-> c,
                   fx |-> AnnotFx("move_local_shape", shape,
                                  <<"shape", "label">>, <<>>,
                                  NoFx("shape_changed", shape))]

\* ----------------------------------------------------------------------- pyplot
\* Figure objects are numbered 1..MaxFigs in the order they are made; NoFig is
\* None.  A title k >= 1 is the string "Figure k", TextTitle a title given as
\* text; NoTitle is the argument None.
MaxFigs == 2
Figs == 1..MaxFigs
NoFig == 0
TextTitle == 0
NoTitle == 0 - 1
Titles == 0..(MaxFigs + 1)

\* the module globals at import: _figures = {}, _current_fig = None,
\* _current_axes = None.  figures maps a title to the Figure registered under
\* it, title is Figure.title, wintitle the title of the figure's Window
\* (NoTitle before build_window), open whether that window is shown;
\* current_axes is the figure that owns the current axes.
InitPyplot ==
    [figures |-> [t \in Titles |-> NoFig],
     made |-> 0,
     title |-> [f \in Figs |-> NoTitle],
     wintitle |-> [f \in Figs |-> NoTitle],
     open |-> [f \in Figs |-> FALSE],
     current_fig |-> NoFig,
     current_axes |-> NoFig]

\* len(_figures)
NumFigures(p) == Cardinality({t \in Titles : p.figures[t] # NoFig})

\* _make_figure_title(N)
make_figure_title(p, N) == IF N = NoTitle THEN NumFigures(p) + 1 ELSE N

PyResult(p, fig, isnew, raised) ==
    [py |-> p, fig |-> fig, isnew |-> isnew, raised |-> raised]

\* figure(N) that lets the current axes stand
figure_keeps_axes(p, N) ==
    LET t == make_figure_title(p, N)
    IN  IF p.figures[t] # NoFig
        THEN PyResult([p EXCEPT !.current_fig = p.figures[t]],
                      p.figures[t], FALSE, FALSE)
        ELSE LET f == p.made + 1
             IN  PyResult([p EXCEPT !.made = f,
                                    !.title[f] = t,
                                    !.figures[t] = f,
                                    !.current_fig = f],
                          f, TRUE, FALSE)

\* figure(N)
figure(p, N) ==
    LET t == make_figure_title(p, N)
    IN  IF p.figures[t] # NoFig
        THEN PyResult([p EXCEPT !.current_fig = p.figures[t],
                                !.current_axes = NoFig],
                      p.figures[t], FALSE, FALSE)
        ELSE LET f == p.made + 1
             IN  PyResult([p EXCEPT !.made = f,
                                    !.title[f] = t,
                                    !.figures[t] = f,
                                    !.current_fig = f,
                                    !.current_axes = NoFig],
                          f, TRUE, FALSE)

\* gcf()
gcf(p) ==
    IF p.current_fig # NoFig THEN PyResult(p, p.current_fig, FALSE, FALSE)
    ELSE figure(p, NoTitle)

\* gca(): the axes (1, 1) of the current figure
gca(p) ==
    IF p.current_axes # NoFig THEN PyResult(p, p.current_axes, FALSE, FALSE)
    ELSE LET g == gcf(p)
         IN  PyResult([g.py EXCEPT !.current_axes = g.fig], g.fig, g.isnew, FALSE)

\* subplot(n, m, k): the axes (lig, col) of the current figure become the
\* current axes, whatever the current axes were.  Figure.get_axes keeps every
\* Axes it makes in the figure's axes dict and nothing takes one out, so the
\* axes it returns are axes of that figure.
subplot(p, n, m, k) ==
    LET lig == (k - 1) \div m
        col == (k - 1) % m
        g == gcf(p)
    IN  PyResult([g.py EXCEPT !.current_axes = g.fig], g.fig, g.isnew, FALSE)

\* title(text): _figures.pop(fig.title) raises KeyError when nothing is
\* registered under the title of the current figure
title(p, text) ==
    LET g == gcf(p)
        q == g.py
        old == q.title[g.fig]
    IN  IF q.figures[old] = NoFig THEN PyResult(q, g.fig, g.isnew, TRUE)
        ELSE PyResult([q EXCEPT !.figures = [q.figures EXCEPT ![old] = NoFig,
                                                              ![text] = g.fig],
                                !.title[g.fig] = text],
                      g.fig, g.isnew, FALSE)

\* show() in interactive mode: Figure.show for every registered figure;
\* build_window gives a figure without window one titled with Figure.title
show(p) ==
    LET shown == {p.figures[t] : t \in Titles} \ {NoFig}
    IN  PyResult([p EXCEPT
                    !.wintitle = [f \in Figs |->
                                    IF f \in shown /\ p.wintitle[f] = NoTitle
                                    THEN p.title[f] ELSE p.wintitle[f]],
                    !.open = [f \in Figs |-> p.open[f] \/ f \in shown]],
                 NoFig, FALSE, FALSE)

\* Window.closeEvent of the window of figure f: _figures.pop(windowTitle)
\* raises KeyError when nothing is registered under the window's title; the
\* window is closed either way
closeEvent(p, f) ==
    LET t == p.wintitle[f]
        popped == p.figures[t]
        q == [p EXCEPT !.open[f] = FALSE]
    IN  IF popped = NoFig THEN PyResult(q, NoFig, FALSE, TRUE)
        ELSE IF popped = p.current_fig
        THEN PyResult([q EXCEPT !.figures[t] = NoFig,
                                !.current_fig = NoFig,
                                !.current_axes = NoFig],
                      popped, FALSE, FALSE)
        ELSE PyResult([q EXCEPT !.figures[t] = NoFig], popped, FALSE, FALSE)

\* close(N, all): Figure has no close method, so fig.close() raises
\* AttributeError after gcf() or figure(N) has run
close(p, N, all) ==
    IF all
    THEN PyResult([p EXCEPT !.figures = [t \in Titles |-> NoFig],
                            !.current_fig = NoFig,
                            !.current_axes = NoFig],
                  NoFig, FALSE, FALSE)
    ELSE LET g == IF N = NoTitle THEN gcf(p) ELSE figure(p, N)
         IN  PyResult(g.py, g.fig, g.isnew, TRUE)

\* ------------------------------------------------------------------ the system
\* The plot manager has just built its plots and registered the panel
\* (register_panel -> connect_plot -> items_changed on still empty plots); the
\* panel widget has not been shown yet.  The application holds images, a
\* marker and a shape that are on no plot yet; a grid item sits on plot p1.
InitEnv ==
    [itemPlot |-> [i \in Items |-> IF i \in Others THEN "p1" ELSE NoPlot],
     imgAlive |-> [i \in Items |-> TRUE],
     lut      |-> 0,
     objPlot  |-> [o \in Objs |-> NoPlot],
     objPos   |-> [o \in Objs |-> 0],
     alive    |-> [o \in Objs |-> TRUE],
     held     |-> [o \in Objs |-> TRUE],
     visible  |-> FALSE]

Init ==
    /\ env = InitEnv
    /\ cs = NewPlot("x")
    /\ item = NewItem("x")
    /\ fx = NoFx("init", NoObj)
    /\ py = InitPyplot

Handled(r) == cs' = r.cs /\ fx' = r.fx /\ UNCHANGED <<item, py>>

\* the panel's strong references if last_obj were the object itself
PanelOwns_last(c, o) == is_shape_known(c, o) \/ c.last_obj = o

\* The strong references the panel keeps to markers and shapes: the lists of
\* _shapes hold the registered shapes themselves; last_obj is a weakref.ref
\* and holds nothing.
PanelOwns(c, o) == is_shape_known(c, o)

\* reference counting: an object that is on no plot, that the application
\* holds no more and that the panel does not own is collected at once
Collect(e, c) ==
    LET gone == {o \in Objs : /\ e.alive[o] /\ ~e.held[o]
                              /\ e.objPlot[o] = NoPlot /\ ~PanelOwns(c, o)}
    IN  [e EXCEPT !.alive = [o \in Objs |-> e.alive[o] /\ o \notin gone],
                  !.objPos = [o \in Objs |-> IF o \in gone THEN 0
                                             ELSE e.objPos[o]]]

\* plot.add_item(image): SIG_ITEMS_CHANGED(plot)
AddItem(i, p) ==
    /\ env.imgAlive[i] /\ env.itemPlot[i] = NoPlot
    /\ env' = [env EXCEPT !.itemPlot[i] = p]
    /\ cs' = items_changed(cs, env', p)
    /\ fx' = NoFx("items_changed", NoObj)
    /\ UNCHANGED <<item, py>>

\* plot.del_item(image): SIG_ITEMS_CHANGED(plot)
DelItem(i) ==
    /\ env.itemPlot[i] # NoPlot
    /\ env' = [env EXCEPT !.itemPlot[i] = NoPlot]
    /\ cs' = items_changed(cs, env', env.itemPlot[i])
    /\ fx' = NoFx("items_changed", NoObj)
    /\ UNCHANGED <<item, py>>

\* the contrast panel changes the LUT of an image of the plot:
\* SIG_LUT_CHANGED(plot)
LutChanged(p) ==
    /\ \E i \in Images : env.itemPlot[i] = p
    /\ \E v \in 0..MaxLut :
         /\ v # env.lut
         /\ \E r \in {lut_changed(cs, [env EXCEPT !.lut = v])} :
                /\ env' = Collect([env EXCEPT !.lut = v], r.cs)
                /\ Handled(r)

\* a marker or shape is put on a plot / taken off its plot
AttachObj(o, p) ==
    /\ env.held[o] /\ env.objPlot[o] = NoPlot
    /\ env' = [env EXCEPT !.objPlot[o] = p]
    /\ UNCHANGED <<cs, item, py>>
    /\ fx' = NoFx("env", NoObj)

DetachObj(o) ==
    /\ env.objPlot[o] # NoPlot
    /\ env' = [env EXCEPT !.objPlot[o] = NoPlot]
    /\ UNCHANGED <<cs, item, py>>
    /\ fx' = NoFx("env", NoObj)

\* a marker or shape is taken off plot p
DetachFrom(o, p) ==
    /\ env.objPlot[o] = p
    /\ env' = [env EXCEPT !.objPlot[o] = NoPlot]
    /\ UNCHANGED <<cs, item, py>>
    /\ fx' = NoFx("env", NoObj)

\* the application drops its last reference to a marker or shape that is on
\* no plot
ReleaseObj(o) ==
    /\ env.held[o] /\ env.objPlot[o] = NoPlot
    /\ env' = Collect([env EXCEPT !.held[o] = FALSE], cs)
    /\ UNCHANGED <<cs, item, py>>
    /\ fx' = NoFx("env", NoObj)

\* the user drags a marker: SIG_MARKER_CHANGED(marker) -> marker_changed
MoveMarker(o, pos) ==
    /\ o \in Markers /\ env.objPlot[o] # NoPlot /\ pos # env.objPos[o]
    /\ env' = [env EXCEPT !.objPos[o] = pos]
    /\ Handled(marker_changed(cs, env', o))

\* AnnotatedShape.move_point_to / move_local_shape on a shape that has a plot:
\* SIG_ANNOTATION_CHANGED(shape) -> shape_changed
MoveShape(o, pos) ==
    /\ o \in Shapes /\ env.objPlot[o] # NoPlot /\ pos # env.objPos[o]
    /\ env' = [env EXCEPT !.objPos[o] = pos]
    /\ Handled(shape_changed(cs, env', o, "shape_changed"))

\* plot.set_active_item / unselect: SIG_ACTIVE_ITEM_CHANGED(plot) ->
\* active_item_changed -> shape_changed(plot.get_active_item())
ActiveItemChanged(p, o) ==
    /\ o = NoObj \/ (o \in Objs /\ env.objPlot[o] = p)
    /\ UNCHANGED <<env, py>>
    /\ Handled(active_item_changed(cs, env, o))

\* CrossSectionWidget.register_shape: plot is the manager's active plot
RegisterShape(p, o) ==
    /\ o \in Shapes /\ (env.held[o] \/ env.objPlot[o] # NoPlot)
    /\ UNCHANGED <<env, py>>
    /\ Handled(register_shape(cs, env, p, o))

UnregisterShape(o) ==
    /\ o \in Shapes /\ (env.held[o] \/ env.objPlot[o] # NoPlot)
    /\ UNCHANGED <<env, py>>
    /\ cs' = unregister_shape(cs, o)
    /\ UNCHANGED <<item, py>>
    /\ fx' = NoFx("unregister_shape", o)

\* CrossSectionWidget.update_plot(obj) called by a tool
UpdatePlot(o) ==
    /\ o \in Objs /\ (env.held[o] \/ env.objPlot[o] # NoPlot)
    /\ UNCHANGED <<env, py>>
    /\ Handled(update_plot(cs, env, o, "update_plot"))

\* the refresh action: update_plot()
Refresh ==
    \E r \in {update_plot(cs, env, NoObj, "refresh")} :
        /\ env' = Collect(env, r.cs)
        /\ Handled(r)

\* the checkable toolbar actions: toggled(bool) comes with the new state
TogglePerimage(state) ==
    /\ state # cs.perimage_mode
    /\ \E r \in {toggle_perimage_mode(cs, env, state)} :
           /\ env' = Collect(env, r.cs)
           /\ Handled(r)

ToggleAutoscale(state) ==
    /\ state # cs.autoscale_mode
    /\ \E r \in {toggle_autoscale(cs, env, state)} :
           /\ env' = Collect(env, r.cs)
           /\ Handled(r)

ToggleApplyLut(state) ==
    /\ state # cs.apply_lut
    /\ \E r \in {toggle_apply_lut(cs, env, state)} :
           /\ env' = Collect(env, r.cs)
           /\ Handled(r)

\* the panel widget is shown or hidden
SetVisible(state) ==
    /\ state # env.visible
    /\ env' = [env EXCEPT !.visible = state]
    /\ UNCHANGED <<cs, item, py>>
    /\ fx' = NoFx("env", NoObj)

\* Spec: the tools at work.  Each plot shows its own image (i1 on p1, i2 on
\* p2), which comes and goes; a marker and a shape are put on plots, dragged,
\* selected, registered and dropped; the panel is shown and hidden; its
\* toolbar is left alone.
Next ==
    \/ AddItem("i1", "p1")
    \/ AddItem("i2", "p2")
    \/ \E i \in Images : DelItem(i)
    \/ \E o \in Objs, p \in Plots : AttachObj(o, p)
    \/ \E o \in Objs : DetachObj(o)
    \/ \E o \in Objs : ReleaseObj(o)
    \/ \E o \in Markers, pos \in 0..MaxPos : MoveMarker(o, pos)
    \/ \E o \in Shapes, pos \in 0..MaxPos : MoveShape(o, pos)
    \/ \E p \in Plots, o \in Objs \cup {NoObj} : ActiveItemChanged(p, o)
    \/ \E p \in Plots, o \in Shapes : RegisterShape(p, o)
    \/ \E o \in Shapes : UnregisterShape(o)
    \/ \E o \in Objs : UpdatePlot(o)
    \/ Refresh
    \/ \E b \in BOOLEAN : SetVisible(b)

Spec == Init /\ [][Next]_vars

\* SpecModes: the toolbar at work.  The panel is shown.  Two images come and
\* go on plot p1 while plot p2 shows none; a marker is put on either plot and
\* dragged, and the one put on p2 may be taken off again and dropped; the three
\* mode switches are toggled and the contrast is changed.
InitModes ==
    /\ env = [InitEnv EXCEPT !.visible = TRUE]
    /\ cs = NewPlot("x")
    /\ item = NewItem("x")
    /\ fx = NoFx("init", NoObj)
    /\ py = InitPyplot

NextModes ==
    \/ \E i \in Images : AddItem(i, "p1")
    \/ \E i \in Images : DelItem(i)
    \/ \E o \in Markers, p \in Plots : AttachObj(o, p)
    \/ \E o \in Markers : DetachFrom(o, "p2")
    \/ \E o \in Markers : ReleaseObj(o)
    \/ \E o \in Markers, pos \in 0..MaxPos : MoveMarker(o, pos)
    \/ LutChanged("p1")
    \/ Refresh
    \/ \E b \in BOOLEAN : TogglePerimage(b)
    \/ \E b \in BOOLEAN : ToggleAutoscale(b)
    \/ \E b \in BOOLEAN : ToggleApplyLut(b)

SpecModes == InitModes /\ [][NextModes]_vars

\* SpecActive: selecting items while the sampling mode is switched.  The panel
\* is shown.  Images come and go on plot p1 while plot p2 shows none; a marker
\* and a shape are put on either plot and taken off, the shape is registered
\* and unregistered, the per-image switch is toggled, and the active item of
\* a plot changes to one of its markers or shapes or to none.
NextActive ==
    \/ \E i \in Images : AddItem(i, "p1")
    \/ \E i \in Images : DelItem(i)
    \/ \E o \in Objs, p \in Plots : AttachObj(o, p)
    \/ \E o \in Objs : DetachObj(o)
    \/ \E p \in Plots, o \in Shapes : RegisterShape(p, o)
    \/ \E o \in Shapes : UnregisterShape(o)
    \/ \E b \in BOOLEAN : TogglePerimage(b)
    \/ \E p \in Plots, o \in Objs \cup {NoObj} : ActiveItemChanged(p, o)

SpecActive == InitModes /\ [][NextActive]_vars

\* AnnotSpec: annotated shapes being edited.  The panel is shown.  An image
\* comes and goes on plot p1; a shape is put on a plot, taken off, registered
\* and unregistered, the per-image switch is toggled, and the shape is moved
\* through each of the three methods of AnnotatedShape, on a plot or not.
AnnotMoved(r) ==
    /\ env' = r.env /\ cs' = r.cs /\ fx' = r.fx
    /\ UNCHANGED <<item, py>>

AnnotMovePointTo(o, pos) ==
    /\ env.alive[o] /\ pos # env.objPos[o]
    /\ \E r \in {move_point_to(cs, env, o, pos)} : AnnotMoved(r)

AnnotMoveShape(o, old_pos, new_pos) ==
    /\ env.alive[o] /\ old_pos # new_pos
    /\ env.objPos[o] + new_pos - old_pos \in 0..MaxPos
    /\ \E r \in {move_shape(cs, env, o, old_pos, new_pos)} : AnnotMoved(r)

AnnotMoveLocalShape(o, old_pos, new_pos, converts) ==
    /\ env.alive[o] /\ old_pos # new_pos
    /\ env.objPos[o] + new_pos - old_pos \in 0..MaxPos
    /\ converts \/ env.objPlot[o] = NoPlot
    /\ \E r \in {move_local_shape(cs, env, o, old_pos, new_pos, converts)} :
           AnnotMoved(r)

NextAnnot ==
    \/ AddItem("i1", "p1")
    \/ DelItem("i1")
    \/ \E o \in Shapes, p \in Plots : AttachObj(o, p)
    \/ \E o \in Shapes : DetachObj(o)
    \/ \E p \in Plots, o \in Shapes : RegisterShape(p, o)
    \/ \E o \in Shapes : UnregisterShape(o)
    \/ \E b \in BOOLEAN : TogglePerimage(b)
    \/ \E o \in Shapes, pos \in 0..MaxPos : AnnotMovePointTo(o, pos)
    \/ \E o \in Shapes, a, b \in 0..MaxPos : AnnotMoveShape(o, a, b)
    \/ \E o \in Shapes, a, b \in 0..MaxPos, k \in BOOLEAN :
           AnnotMoveLocalShape(o, a, b, k)

AnnotSpec == InitModes /\ [][NextAnnot]_vars

\* ItemSpec: a cross-section item of any of the three classes used through its
\* own interface (set_source_image, the mode attributes, update_item), with the
\* panel not involved.  An image is shown on plot p1, taken off and dropped; a
\* marker and a shape sit on p1 and are moved; the item's plot is shown.
InitItem ==
    /\ env = [InitEnv EXCEPT !.objPlot = [o \in Objs |-> "p1"]]
    /\ cs = NewPlot("x")
    /\ item \in {NewItem(k) : k \in Kinds}
    /\ fx = NoFx("init", NoObj)
    /\ py = InitPyplot

\* item.set_source_image(image)
ItemSetSource(i) ==
    /\ env.imgAlive[i]
    /\ item' = set_source_image(item, i)
    /\ fx' = NoFx("set_source_image", NoObj)
    /\ UNCHANGED <<env, cs, py>>

\* plot.add_item(item) / plot.del_item(item) on the cross-section plot
ItemAttach(state) ==
    /\ state # item.attached
    /\ item' = [item EXCEPT !.attached = state]
    /\ fx' = NoFx("env", NoObj)
    /\ UNCHANGED <<env, cs, py>>

\* the mode attributes are plain attributes of the item
ItemSetModes(perimage, autoscale, lut) ==
    /\ item' = [item EXCEPT !.perimage_mode = perimage,
                            !.autoscale_mode = autoscale,
                            !.apply_lut = lut]
    /\ item' # item
    /\ fx' = NoFx("env", NoObj)
    /\ UNCHANGED <<env, cs, py>>

\* item.update_item(obj)
ItemUpdate(o) ==
    /\ env.alive[o]
    /\ LET r == update_item(item, env, o)
       IN  /\ item' = r.curve
           /\ fx' = [NoFx("update_item", o) EXCEPT !.emitted = r.emitted,
                                                   !.rescaled = r.rescaled,
                                                   !.raised = r.raised]
    /\ UNCHANGED <<env, cs, py>>

\* an image is put on an image plot nobody listens to / taken off it
PutImage(i, p) ==
    /\ env.imgAlive[i] /\ env.itemPlot[i] = NoPlot
    /\ env' = [env EXCEPT !.itemPlot[i] = p]
    /\ fx' = NoFx("env", NoObj)
    /\ UNCHANGED <<cs, item, py>>

TakeImage(i) ==
    /\ i \in Images /\ env.itemPlot[i] # NoPlot
    /\ env' = [env EXCEPT !.itemPlot[i] = NoPlot]
    /\ fx' = NoFx("env", NoObj)
    /\ UNCHANGED <<cs, item, py>>

\* the last strong reference to an image that is on no plot goes away
ReleaseImage(i) ==
    /\ env.imgAlive[i] /\ env.itemPlot[i] = NoPlot
    /\ env' = [env EXCEPT !.imgAlive[i] = FALSE]
    /\ fx' = NoFx("env", NoObj)
    /\ UNCHANGED <<cs, item, py>>

\* a marker or shape is given another position with no panel listening
MoveObj(o, pos) ==
    /\ env.alive[o] /\ pos # env.objPos[o]
    /\ env' = [env EXCEPT !.objPos[o] = pos]
    /\ fx' = NoFx("env", NoObj)
    /\ UNCHANGED <<cs, item, py>>

NextItem ==
    \/ ItemSetSource("i1")
    \/ \E b \in BOOLEAN : ItemAttach(b)
    \/ \E pm \in BOOLEAN, am \in BOOLEAN, al \in BOOLEAN : ItemSetModes(pm, am, al)
    \/ \E o \in Objs : ItemUpdate(o)
    \/ PutImage("i1", "p1")
    \/ TakeImage("i1")
    \/ ReleaseImage("i1")
    \/ \E o \in Objs, pos \in 0..MaxPos : MoveObj(o, pos)
    \/ \E b \in BOOLEAN : SetVisible(b)

ItemSpec == InitItem /\ [][NextItem]_vars


\* CurveSpec: the end of update_curve_data as a function of the computed
\* arrays.  Each step hands a curve of one of the three classes a computed
\* profile drawn from the set below and records the profile in fx.
MaxLen == 3                      \* the longest computed profile
Samples == {NaN, [mode |-> "num", val |-> 1], [mode |-> "num", val |-> 2]}
Profiles == UNION {[1..n -> Samples] : n \in 0..MaxLen}

InitCurve ==
    /\ env = InitEnv
    /\ cs = NewPlot("x")
    /\ item \in {NewItem(k) : k \in Kinds}
    /\ fx = NoFx("init", NoObj)
    /\ py = InitPyplot

\* update_curve_data after get_cross_section / compute_radial_section has
\* returned the arrays sectx, secty
StoreSection(secty) ==
    LET sectx == [k \in 1..Len(secty) |-> [mode |-> "coord", val |-> k - 1]]
    IN  /\ item' = set_section(item, sectx, secty)
        /\ fx' = [NoFx("set_section", NoObj) EXCEPT
                     !.arg = [x |-> sectx, y |-> secty]]
        /\ UNCHANGED <<env, cs, py>>

NextCurve ==
    \/ \E secty \in Profiles : StoreSection(secty)

CurveSpec == InitCurve /\ [][NextCurve]_vars

\* SectionSpec: the rectangle-averaged and the radial extractor as functions
\* of their arguments.  Each step calls one of them with arguments drawn from
\* the sets below and records the arguments and the result in fx; a behaviour
\* is one call.
\* Data coordinates run over 0..MaxCoord on both axes; one canvas pixel is one
\* unit, and the canvas is MaxCoord high.
MaxCoord == 2
Coords == 0..MaxCoord

\* obj.axes_to_canvas / obj.canvas_to_axes; ydir is
\* plot.get_axis_direction("left"): TRUE when the y axis is reversed, its
\* values growing down the canvas like the canvas rows
axes_to_canvas(x, y, ydir) == <<x, IF ydir THEN y ELSE MaxCoord - y>>

canvas_to_axes(p, ydir) == <<p[1], IF ydir THEN p[2] ELSE MaxCoord - p[2]>>

\* the value the plot shows at data column x, row y
Pix(x, y) == x + (MaxCoord + 1) * y

\* guiqwt.image.get_plot_source_rect and get_image_from_plot: the source
\* rectangle from the corner p0 to the corner p1, sampled row by row starting
\* at p0; a rectangle without width or height is refused (ValueError)
get_image_from_plot(p0, p1, ydir) ==
    LET a0 == canvas_to_axes(p0, ydir)
        a1 == canvas_to_axes(p1, ydir)
        w == a1[1] - a0[1]
        h == a1[2] - a0[2]
    IN  IF w <= 0 \/ h <= 0 THEN [kind |-> "error", data |-> <<>>]
        ELSE [kind |-> "data",
              data |-> [r \in 1..h |->
                          [c \in 1..w |-> Pix(a0[1] + c - 1, a0[2] + r - 1)]]]

\* get_image_data: None when the plot holds no ImageItem
get_image_data(hasimg, p0, p1, ydir) ==
    IF ~hasimg THEN [kind |-> "none", data |-> <<>>]
    ELSE get_image_from_plot(p0, p1, ydir)

RECURSIVE SumSeq(_)
SumSeq(q) == IF Len(q) = 0 THEN 0 ELSE q[1] + SumSeq(Tail(q))

\* data.mean(axis=0): one mean per column, kept as sum and count
MeanAxis0(data) ==
    [c \in 1..Len(data[1]) |->
        [mode |-> "mean",
         sum |-> SumSeq([r \in 1..Len(data) |-> data[r][c]]),
         n |-> Len(data)]]

\* data.mean(axis=1): one mean per row
MeanAxis1(data) ==
    [r \in 1..Len(data) |->
        [mode |-> "mean", sum |-> SumSeq(data[r]), n |-> Len(data[r])]]

\* y[::-1]
Reversed(q) == [k \in 1..Len(q) |-> q[Len(q) + 1 - k]]

\* np.linspace(a, b, n): the k-th value is num / den
linspace(a, b, n) ==
    [k \in 1..n |-> IF n = 1 THEN [num |-> a, den |-> 1]
                    ELSE [num |-> a * (n - 1) + (k - 1) * (b - a),
                          den |-> n - 1]]

\* the canvas points with the y test of the reversed axis for both directions
canvas_points_one_way(extractor, rect, ydir) ==
    LET c0 == axes_to_canvas(rect[1], rect[2], ydir)
        c1 == axes_to_canvas(rect[3], rect[4], ydir)
        xswap == c0[1] > c1[1]
        yswap == c0[2] > c1[2]
    IN  IF extractor = "x"
        THEN << <<0, c0[2]>>, <<MaxCoord, c0[2] + 1>> >>
        ELSE IF extractor = "y"
        THEN << <<c0[1], 0>>, <<c0[1] + 1, MaxCoord>> >>
        ELSE << <<IF xswap THEN c1[1] ELSE c0[1], IF yswap THEN c1[2] ELSE c0[2]>>,
                <<IF xswap THEN c0[1] ELSE c1[1], IF yswap THEN c0[2] ELSE c1[2]>> >>

\* The two canvas points QPoint(xc0, yc0), QPoint(xc1, yc1) an extractor hands
\* to get_image_data: get_plot_x_section ("x") and get_plot_y_section ("y")
\* for a marker at (rect[1], rect[2]), get_plot_average_x_section
\* ("average_x") and get_plot_average_y_section ("average_y") for a shape with
\* get_rect() = rect.  The canvas has the columns and rows 0..MaxCoord;
\* canvasMap(BOTTOM_AXIS) runs from p1 = 0 at the left to p2 = MaxCoord,
\* canvasMap(LEFT_AXIS) from p1 = MaxCoord at the bottom to p2 = 0 at the top.
canvas_points(extractor, rect, ydir) ==
    LET c0 == axes_to_canvas(rect[1], rect[2], ydir)
        c1 == axes_to_canvas(rect[3], rect[4], ydir)
        xswap == c0[1] > c1[1]
        yswap == (ydir /\ c0[2] > c1[2]) \/ (~ydir /\ c0[2] < c1[2])
    IN  IF extractor = "x"
        THEN << <<0, c0[2]>>,
                <<MaxCoord, IF ydir THEN c0[2] + 1 ELSE c0[2] - 1>> >>
        ELSE IF extractor = "y"
        THEN << <<c0[1], IF ydir THEN 0 ELSE MaxCoord>>,
                <<c0[1] + 1, IF ydir THEN MaxCoord ELSE 0>> >>
        ELSE << <<IF xswap THEN c1[1] ELSE c0[1], IF yswap THEN c1[2] ELSE c0[2]>>,
                <<IF xswap THEN c0[1] ELSE c1[1], IF yswap THEN c0[2] ELSE c1[2]>> >>

EmptyProfile == [raised |-> FALSE, x |-> <<>>, y |-> <<>>]
Raised == [raised |-> TRUE, x |-> <<>>, y |-> <<>>]

\* get_plot_average_x_section(obj, apply_lut) for obj.get_rect() = rect on a
\* plot with (hasimg) or without an ImageItem
get_plot_average_x_section(rect, ydir, hasimg) ==
    LET c0 == axes_to_canvas(rect[1], rect[2], ydir)
        c1 == axes_to_canvas(rect[3], rect[4], ydir)
        invert == c0[1] > c1[1]
        pts == canvas_points("average_x", rect, ydir)
        d == get_image_data(hasimg, pts[1], pts[2], ydir)
    IN  IF d.kind = "error" THEN EmptyProfile
        ELSE IF d.kind = "none" THEN Raised
        ELSE LET y == MeanAxis0(d.data)
             IN  [raised |-> FALSE,
                  x |-> linspace(rect[1], rect[3], Len(y)),
                  y |-> IF invert THEN Reversed(y) ELSE y]

\* get_plot_average_y_section(obj, apply_lut)
get_plot_average_y_section(rect, ydir, hasimg) ==
    LET c0 == axes_to_canvas(rect[1], rect[2], ydir)
        c1 == axes_to_canvas(rect[3], rect[4], ydir)
        invert == (ydir /\ c0[2] > c1[2]) \/ (~ydir /\ c0[2] < c1[2])
        pts == canvas_points("average_y", rect, ydir)
        d == get_image_data(hasimg, pts[1], pts[2], ydir)
    IN  IF d.kind = "error" THEN EmptyProfile
        ELSE IF d.kind = "none" THEN Raised
        ELSE LET y == MeanAxis1(d.data)
                 x == linspace(rect[2], rect[4], Len(y))
             IN  [raised |-> FALSE,
                  x |-> IF invert THEN Reversed(x) ELSE x,
                  y |-> y]

\* a rectangle-averaged extractor is called for a shape with the rectangle
\* rect on a plot with the given axis direction
AverageSection(axis, rect, ydir, hasimg) ==
    /\ fx.handler = "init"
    /\ fx' = [NoFx("average_section", NoObj) EXCEPT
                 !.arg = [axis |-> axis, rect |-> rect, ydir |-> ydir,
                          hasimg |-> hasimg],
                 !.emitted = IF axis = "x"
                             THEN get_plot_average_x_section(rect, ydir, hasimg)
                             ELSE get_plot_average_y_section(rect, ydir, hasimg)]
    /\ UNCHANGED <<env, cs, item, py>>

\* Pixel indexes of the radial source run over 0..MaxIdx.
MaxIdx == 3
Idx == 0..MaxIdx

\* The radial source im: an image of MaxIdx + 1 rows and im.ncols columns.
\* im.table tells how it looks its x coordinates up, im.origin is the x
\* coordinate of index 0, im.uniform tells whether all pixels hold one value,
\* im.masked whether item.data is a np.ma.MaskedArray and im.mask is the set
\* of its masked pixels <<column, row>> (none, or one on the diagonal).
Widths == {MaxIdx - 1, MaxIdx + 1}
Origins == {0, 5}
Masks == {{}} \cup {{<<i, i>>} : i \in Idx}
Sources ==
    [table : BOOLEAN, ncols : Widths, origin : Origins, uniform : BOOLEAN,
     masked : {FALSE}, mask : {{}}]
    \cup [table : BOOLEAN, ncols : Widths, origin : Origins, uniform : BOOLEAN,
          masked : {TRUE}, mask : Masks]

\* item.data[row, column]
Data(im, x, y) == IF im.uniform THEN 7 ELSE 1 + x + (MaxIdx + 1) * y

\* item.get_x_values(i0, i1): the x coordinates of the pixel indexes i0..i1-1.
\* A source that computes its coordinates returns i1 - i0 values; a source
\* that keeps them in a table of im.ncols entries returns the slice
\* table[i0:i1], cut at the end of the table.  The coordinate of index i is
\* im.origin + i.
get_x_values(im, i0, i1) ==
    LET last == IF im.table /\ i1 > im.ncols THEN im.ncols ELSE i1
        n == IF last > i0 THEN last - i0 ELSE 0
    IN  [k \in 1..n |-> im.origin + i0 + k - 1]

\* q[:n]
Prefix(q, n) == [k \in 1..(IF Len(q) < n THEN Len(q) ELSE n) |-> q[k]]

\* the radius without the rounding term: floor(sqrt((dx^2 + dy^2) / 8))
iradius_floor(dx, dy) ==
    LET s == dx * dx + dy * dy
    IN  CHOOSE r \in 0..(2 * MaxIdx + 2) : 8 * r * r <= s /\ 8 * (r + 1) * (r + 1) > s

\* int(np.floor(.5*np.sqrt(.5*dx**2+.5*dy**2)+.5)) in integers: iradius is the
\* r with r - 1/2 <= sqrt((dx^2 + dy^2) / 8) < r + 1/2
iradius(dx, dy) ==
    LET s == dx * dx + dy * dy
    IN  CHOOSE r \in 0..(2 * MaxIdx + 2) :
            /\ r = 0 \/ 2 * (2 * r - 1) * (2 * r - 1) <= s
            /\ 2 * (2 * r + 1) * (2 * r + 1) > s

\* floor(sqrt(dx^2 + dy^2) + 0.5): the shell of a pixel dx columns and dy rows
\* from the centre
Shell(dx, dy) ==
    LET s == dx * dx + dy * dy
    IN  CHOOSE r \in 0..(2 * MaxIdx + 2) :
            /\ r = 0 \/ (2 * r - 1) * (2 * r - 1) <= 4 * s
            /\ (2 * r + 1) * (2 * r + 1) > 4 * s

\* the pixels of the image in shell r around the centre
ShellPixels(im, ixc, iyc, r) ==
    {p \in (0..(im.ncols - 1)) \X Idx : Shell(p[1] - ixc, p[2] - iyc) = r}

RECURSIVE SumData(_, _)
SumData(im, S) ==
    IF S = {} THEN 0
    ELSE LET p == CHOOSE q \in S : TRUE
         IN  Data(im, p[1], p[2]) + SumData(im, S \ {p})

\* ydata[r] / ycount[r]: the mean of the pixels S of one shell, 0/0 for none
ShellMean(im, S) ==
    IF S = {} THEN NaN
    ELSE [mode |-> "mean", sum |-> SumData(im, S), n |-> Cardinality(S)]

\* radialaverage.radavg(ydata, ycount, data, iyc, ixc, iradius): fills the
\* iradius + 1 entries of ydata in place
radavg(im, iyc, ixc, r) ==
    [k \in 1..(r + 1) |-> ShellMean(im, ShellPixels(im, ixc, iyc, k - 1))]

\* radialaverage.radavg_mask(ydata, ycount, data, mask, iyc, ixc, iradius):
\* the masked pixels are left out
radavg_mask(im, iyc, ixc, r) ==
    [k \in 1..(r + 1) |->
        ShellMean(im, ShellPixels(im, ixc, iyc, k - 1) \ im.mask)]

\* ydata as np.zeros left it, the kernel not called
radial_ydata_zeros(im, iyc, ixc, r) ==
    [k \in 1..(r + 1) |-> [mode |-> "mean", sum |-> 0, n |-> 1]]

\* radial_ydata with the centre handed to radavg_mask as ixc, iyc
radial_ydata_swapped(im, iyc, ixc, r) ==
    IF im.masked THEN radavg_mask(im, ixc, iyc, r) ELSE radavg(im, iyc, ixc, r)

\* compute_radial_section, the kernel call: ydata = np.zeros((iradius+1,)) is
\* filled by radavg_mask for a MaskedArray and by radavg otherwise
radial_ydata(im, iyc, ixc, r) ==
    IF im.masked THEN radavg_mask(im, iyc, ixc, r) ELSE radavg(im, iyc, ixc, r)

\* compute_radial_section, the x values of n samples:
\* item.get_x_values(iyc, iyc+n)[:n], then xdata -= xdata[0], where the
\* IndexError of an empty xdata is caught
radial_xdata(im, iyc, n) ==
    LET xdata == Prefix(get_x_values(im, iyc, iyc + n), n)
    IN  [k \in 1..Len(xdata) |-> xdata[k] - xdata[1]]

\* compute_radial_section(item, x0, y0, x1, y1) on the pixel indexes of the
\* two corners and of their midpoint; dyfunc is None.  binned tells whether
\* the kernel was called; dy is "empty" for np.array([]) and "none" for None.
compute_radial_section_px(im, ix0, iy0, ix1, iy1) ==
    LET ixc == (ix0 + ix1) \div 2
        iyc == (iy0 + iy1) \div 2
        r == iradius(ix1 - ix0, iy1 - iy0)
        ydata == radial_ydata(im, iyc, ixc, r)
    IN  IF r = 0
        THEN [raised |-> FALSE, x |-> <<>>, y |-> <<>>, dy |-> "empty",
              binned |-> FALSE]
        ELSE [raised |-> FALSE, x |-> radial_xdata(im, iyc, Len(ydata)),
              y |-> ydata, dy |-> "none", binned |-> TRUE]

\* compute_radial_section is called on the source im for a rectangle whose
\* corners fall on the given pixel indexes
RadialSection(im, ix0, iy0, ix1, iy1) ==
    /\ fx.handler = "init"
    /\ ix0 < im.ncols /\ ix1 < im.ncols
    /\ fx' = [NoFx("radial_section", NoObj) EXCEPT
                 !.arg = [im |-> im, ix0 |-> ix0, iy0 |-> iy0, ix1 |-> ix1,
                          iy1 |-> iy1],
                 !.emitted = compute_radial_section_px(im, ix0, iy0, ix1, iy1)]
    /\ UNCHANGED <<env, cs, item, py>>

InitSection ==
    /\ env = InitEnv
    /\ cs = NewPlot("x")
    /\ item = NewItem("x")
    /\ fx = NoFx("init", NoObj)
    /\ py = InitPyplot

\* one call of an extractor from the initial state
CallAverage ==
    /\ fx.handler = "init"
    /\ \E axis \in {"x", "y"}, rect \in Coords \X Coords \X Coords \X Coords,
          ydir \in BOOLEAN, hasimg \in BOOLEAN :
            AverageSection(axis, rect, ydir, hasimg)

\* one call of any of the four plot-mode extractors, as far as its call of
\* get_image_data
CallPoints ==
    /\ fx.handler = "init"
    /\ \E extractor \in {"x", "y", "average_x", "average_y"},
          rect \in Coords \X Coords \X Coords \X Coords, ydir \in BOOLEAN :
            /\ extractor \in {"x", "y"} => (rect[3] = rect[1] /\ rect[4] = rect[2])
            /\ fx' = [NoFx("canvas_points", NoObj) EXCEPT
                         !.arg = [extractor |-> extractor, rect |-> rect,
                                  ydir |-> ydir],
                         !.emitted = canvas_points(extractor, rect, ydir)]
            /\ UNCHANGED <<env, cs, item, py>>

CallRadial ==
    /\ fx.handler = "init"
    /\ \E im \in Sources, ix0 \in Idx, iy0 \in Idx, ix1 \in Idx, iy1 \in Idx :
            RadialSection(im, ix0, iy0, ix1, iy1)

NextSection ==
    \/ CallAverage
    \/ CallRadial
    \/ CallPoints

SectionSpec == InitSection /\ [][NextSection]_vars

\* ExportSpec: CrossSectionPlot.export as a function of the curves on the
\* panel, the file name the dialog returns and what np.savetxt does.  A
\* behaviour is one call.
MaxCurves == 2
CurveStates == [visible : BOOLEAN, empty : BOOLEAN, selected : BOOLEAN]
CurveLists == UNION {[1..n -> CurveStates] : n \in 0..MaxCurves}

\* what np.savetxt(fname, data) does: it writes the file, fails to open or
\* write it (IOError), or raises RuntimeError
SaveOutcomes == {"ok", "IOError", "RuntimeError"}

ExportResult(warnings, criticals, writes, written, raised) ==
    [warnings |-> warnings, criticals |-> criticals, writes |-> writes,
     written |-> written, raised |-> raised]

\* CrossSectionPlot.export: warnings and criticals count the QMessageBox
\* calls, writes the np.savetxt calls; raised tells that an exception leaves
\* export.  Only RuntimeError is caught around np.savetxt.
export(curves, fname, outcome) ==
    LET shown == SelectSeq(curves, LAMBDA c : c.visible /\ ~c.empty)
        items == IF Len(shown) > 1
                 THEN SelectSeq(curves, LAMBDA c : c.selected)
                 ELSE shown
    IN  IF Len(shown) = 0 THEN ExportResult(1, 0, 0, FALSE, FALSE)
        ELSE IF Len(items) = 0 THEN ExportResult(1, 0, 0, FALSE, FALSE)
        ELSE IF fname = "" THEN ExportResult(0, 0, 0, FALSE, FALSE)
        ELSE IF outcome = "ok" THEN ExportResult(0, 0, 1, TRUE, FALSE)
        ELSE IF outcome = "RuntimeError" THEN ExportResult(0, 1, 1, FALSE, FALSE)
        ELSE ExportResult(0, 0, 1, FALSE, TRUE)

\* the export action of the panel is triggered
Export(curves, fname, outcome) ==
    /\ fx' = [NoFx("export", NoObj) EXCEPT
                 !.arg = [curves |-> curves, fname |-> fname,
                          outcome |-> outcome],
                 !.emitted = export(curves, fname, outcome)]
    /\ UNCHANGED <<env, cs, item, py>>

InitExport ==
    /\ env = InitEnv
    /\ cs = NewPlot("x")
    /\ item = NewItem("x")
    /\ fx = NoFx("init", NoObj)
    /\ py = InitPyplot

CallExport ==
    /\ fx.handler = "init"
    /\ \E curves \in CurveLists, fname \in {"", "out.txt"},
          outcome \in SaveOutcomes :
            Export(curves, fname, outcome)

NextExport ==
    \/ CallExport

ExportSpec == InitExport /\ [][NextExport]_vars

\* PyplotSpec: the figure registry of pyplot driven by a script and by the
\* user closing windows.  At most MaxFigs Figure objects are made.  fx tells
\* which figure the call returned, whether the call made it, whether it was
\* registered before the call, and which figure was current before.
PyHandled(name, arg, r) ==
    /\ py' = r.py
    /\ fx' = [NoFx(name, NoObj) EXCEPT
                 !.arg = arg,
                 !.emitted = [fig |-> r.fig, isnew |-> r.isnew,
                              wasreg |-> \E t \in Titles : py.figures[t] = r.fig,
                              wascurrent |-> py.current_fig],
                 !.raised = r.raised]
    /\ UNCHANGED <<env, cs, item>>

\* the call makes no Figure beyond the bound
FigureFits(N) ==
    py.made < MaxFigs \/ py.figures[make_figure_title(py, N)] # NoFig

GcfFits == py.current_fig # NoFig \/ FigureFits(NoTitle)

PyFigure(N) ==
    /\ FigureFits(N)
    /\ \E r \in {figure(py, N)} : PyHandled("figure", N, r)

PyGca ==
    /\ GcfFits
    /\ \E r \in {gca(py)} : PyHandled("gca", NoTitle, r)

PySubplot(n, m, k) ==
    /\ GcfFits
    /\ \E r \in {subplot(py, n, m, k)} :
           PyHandled("subplot", [n |-> n, m |-> m, k |-> k], r)

PyTitle(text) ==
    /\ GcfFits
    /\ \E r \in {title(py, text)} : PyHandled("title", text, r)

PyShow ==
    /\ \E r \in {show(py)} : PyHandled("show", NoTitle, r)

PyCloseEvent(f) ==
    /\ py.open[f]
    /\ \E r \in {closeEvent(py, f)} : PyHandled("closeEvent", f, r)

PyClose(N, all) ==
    /\ all \/ (IF N = NoTitle THEN GcfFits ELSE FigureFits(N))
    /\ \E r \in {close(py, N, all)} :
           PyHandled("close", [N |-> N, all |-> all], r)

InitPy ==
    /\ env = InitEnv
    /\ cs = NewPlot("x")
    /\ item = NewItem("x")
    /\ fx = NoFx("init", NoObj)
    /\ py = InitPyplot

NextPy ==
    \/ \E N \in {NoTitle, TextTitle} \cup Figs : PyFigure(N)
    \/ PyGca
    \/ \E k \in 1..2 : PySubplot(2, 1, k)
    \/ PyTitle(TextTitle)
    \/ PyShow
    \/ \E f \in Figs : PyCloseEvent(f)
    \/ \E N \in {NoTitle, TextTitle} \cup Figs, all \in BOOLEAN : PyClose(N, all)

PyplotSpec == InitPy /\ [][NextPy]_vars

\* ------------------------------------------------------------------ properties
\* C1 (ItemSpec): update_item on a cross-section item whose source image was
\* never set or has been collected does nothing: the curve data stay as they
\* were, no SIG_CS_CURVE_CHANGED is emitted, no axis is rescaled and nothing is
\* raised, whatever marker or shape is passed.
C1_ExpiredSourceIsNoop ==
    \A o \in Objs :
        (env.alive[o] /\ get_source_image(item, env) = NoImg)
            => update_item(item, env, o) = ItemNoop(item)

\* C1 happens: update_item has just run on an attached, shown item that holds
\* a profile and whose source image has been collected
C1_Witness ==
    /\ fx.handler = "update_item"
    /\ item.attached /\ env.visible
    /\ item.source # NoImg /\ ~env.imgAlive[item.source]
    /\ item.data # EmptyData
    /\ fx.emitted = <<>>

C3_RefreshUsesLastTarget ==
    /\ (fx.handler = "update_plot" => cs.last_obj = fx.arg)
    /\ (cs.last_obj = NoObj \/ ~env.alive[cs.last_obj])
          => update_plot(cs, env, NoObj, "refresh")
                = [cs |-> cs, fx |-> NoFx("refresh", NoObj)]
    /\ (cs.last_obj # NoObj /\ env.alive[cs.last_obj])
          => LET r == update_plot(cs, env, cs.last_obj, "refresh")
             IN  update_plot(cs, env, NoObj, "refresh")
                    = [r EXCEPT !.fx.arg = NoObj]

\* C3 happens: update_plot() has just run on a shown panel with a curve while
\* the last target was collected
C3_Witness ==
    /\ fx.handler = "refresh"
    /\ cs.last_obj # NoObj /\ ~env.alive[cs.last_obj]
    /\ env.visible /\ Len(cs.known_items) > 0

\* C4 (SpecModes): items_changed(plot) leaves known_items with exactly one
\* entry per cross-section-capable image that is on that plot now and nothing
\* else; every entry is a newly made curve (no data, default flags) on the
\* cross-section plot whose source is the entry's key; the rest of the panel is
\* unchanged.
C4_ItemsChangedRebuilds ==
    \A p \in Plots :
        LET c2 == items_changed(cs, env, p)
            n == Len(c2.known_items)
            capable == {i \in Images : env.itemPlot[i] = p}
        IN  /\ {c2.known_items[k].key : k \in 1..n} = capable
            /\ n = Cardinality(capable)
            /\ \A k \in 1..n :
                 c2.known_items[k].curve
                    = [NewItem(cs.kind) EXCEPT !.source = c2.known_items[k].key,
                                               !.attached = TRUE]
            /\ [c2 EXCEPT !.known_items = cs.known_items] = cs

\* C4 happens: images were added to or removed from a plot after the panel had
\* drawn profiles, and two images are bound now
C4_Witness ==
    /\ fx.handler = "items_changed"
    /\ Len(cs.known_items) = 2
    /\ ~cs.label_visible /\ cs.last_obj # NoObj

\* C5 as stated (SpecModes): a refresh for a target that is on a plot, with at
\* least one entry in known_items: with per-image mode off the first curve is
\* shown and recomputed and every other curve is hidden with its data left
\* alone; with per-image mode on every curve is shown and recomputed.
C5_PerImageVisibility ==
    LET obj == get_last_obj(cs, env)
        n == Len(cs.known_items)
        r == update_plot(cs, env, NoObj, "refresh")
    IN  (obj # NoObj /\ env.objPlot[obj] # NoPlot /\ n >= 1) =>
            IF cs.perimage_mode
            THEN \A k \in 1..n :
                    /\ r.cs.known_items[k].curve.visible
                    /\ InSeq(cs.known_items[k].key, r.fx.emitted)
            ELSE /\ r.cs.known_items[1].curve.visible
                 /\ InSeq(cs.known_items[1].key, r.fx.emitted)
                 /\ \A k \in 2..n :
                      /\ ~r.cs.known_items[k].curve.visible
                      /\ r.cs.known_items[k].curve.data
                            = cs.known_items[k].curve.data

\* C6 (SpecModes): each of toggle_perimage_mode, toggle_autoscale and
\* toggle_apply_lut stores the value in the panel, leaves the two other flags
\* alone and refreshes in the same call: every curve recomputed by the call
\* carries the panel's three flags, and a further update_plot() changes
\* nothing; when there is no live last target only the panel flag changes.
C6_ToggleStoresAndRefreshes ==
    \A b \in BOOLEAN :
      \A t \in { [r |-> toggle_perimage_mode(cs, env, b),
                  c0 |-> [cs EXCEPT !.perimage_mode = b]],
                 [r |-> toggle_autoscale(cs, env, b),
                  c0 |-> [cs EXCEPT !.autoscale_mode = b]],
                 [r |-> toggle_apply_lut(cs, env, b),
                  c0 |-> [cs EXCEPT !.apply_lut = b]] } :
        /\ t.r.cs.perimage_mode = t.c0.perimage_mode
        /\ t.r.cs.autoscale_mode = t.c0.autoscale_mode
        /\ t.r.cs.apply_lut = t.c0.apply_lut
        /\ \A k \in 1..Len(t.r.cs.known_items) :
             InSeq(t.r.cs.known_items[k].key, t.r.fx.emitted) =>
                /\ t.r.cs.known_items[k].curve.perimage_mode = t.c0.perimage_mode
                /\ t.r.cs.known_items[k].curve.autoscale_mode = t.c0.autoscale_mode
                /\ t.r.cs.known_items[k].curve.apply_lut = t.c0.apply_lut
        /\ update_plot(t.r.cs, env, NoObj, "refresh").cs = t.r.cs
        /\ get_last_obj(cs, env) = NoObj =>
             t.r = [cs |-> t.c0, fx |-> NoFx("refresh", NoObj)]

\* C6 happens: a toggle has just recomputed two curves with LUT on and
\* autoscale off while the contrast is at its initial setting
C6_Witness ==
    /\ fx.handler = "refresh"
    /\ Len(fx.emitted) = 2
    /\ cs.apply_lut /\ ~cs.autoscale_mode
    /\ env.lut = 0

\* C7 (SpecModes): every event is one step: its handler runs to the end before
\* the next event is taken.  After the step every curve the handler recomputed
\* holds the profile of the target at its position now, of the images as they
\* are now and under the panel's flags as they are now.
C7_ProfileIsOfThisEvent ==
    \A k \in 1..Len(cs.known_items) :
        InSeq(cs.known_items[k].key, fx.emitted) =>
            LET cur == cs.known_items[k].curve
                now == [cur EXCEPT !.perimage_mode = cs.perimage_mode,
                                   !.autoscale_mode = cs.autoscale_mode,
                                   !.apply_lut = cs.apply_lut]
                u == update_curve_data(now, env, cs.last_obj)
            IN  /\ cs.last_obj # NoObj
                /\ ~u.raised
                /\ cur.data = u.curve.data

\* C7 happens: a marker was dragged to a position inside the images and both
\* curves were recomputed with LUT on after the contrast had been changed
C7_Witness ==
    /\ fx.handler = "update_plot"
    /\ Len(fx.emitted) = 2
    /\ cs.apply_lut /\ env.lut # 0
    /\ cs.known_items[1].curve.data # EmptyData

\* C8 as stated (SpecModes): the panel starts Idle (no last target, label
\* shown); the first refresh with a target that is on a plot makes it the last
\* target, hides the label and recomputes the curves; once the target is off
\* its plot and unregistered, or collected, update_plot() recomputes nothing.
C8_IdleBoundIdle ==
    /\ fx.handler = "init" => (cs.last_obj = NoObj /\ cs.label_visible)
    /\ \A o \in Objs :
         (cs.last_obj = NoObj /\ env.alive[o] /\ env.objPlot[o] # NoPlot) =>
            LET r == update_plot(cs, env, o, "update_plot")
            IN  /\ r.cs.last_obj = o
                /\ ~r.cs.label_visible
                /\ \A k \in 1..Len(cs.known_items) :
                     (cs.perimage_mode \/ k = 1)
                        => InSeq(cs.known_items[k].key, r.fx.emitted)
    /\ (/\ cs.last_obj # NoObj
        /\ ~is_shape_known(cs, cs.last_obj)
        /\ (~env.alive[cs.last_obj] \/ env.objPlot[cs.last_obj] = NoPlot)) =>
            LET r == update_plot(cs, env, NoObj, "refresh")
            IN  r.fx.emitted = <<>> /\ r.cs.known_items = cs.known_items

\* C9 as stated (Spec): update_plot() called twice in a row with no event in
\* between: the second call leaves the curves (data, visibility, flags), the
\* last target, the registry and known_items as the first call left them.
C9_RefreshIdempotent ==
    LET r1 == update_plot(cs, env, NoObj, "refresh")
    IN  update_plot(r1.cs, env, NoObj, "refresh").cs = r1.cs

\* C10 as stated (Spec): register_shape for a shape that is already registered
\* changes nothing, and whatever register_shape and unregister_shape calls were
\* made, a shape is in the registry at most once.
C10_RegisteredAtMostOnce ==
    \A o \in Shapes :
        /\ Cardinality({p \in Plots : InSeq(o, cs.shapes[p])}) <= 1
        /\ \A p \in Plots : \A j, k \in 1..Len(cs.shapes[p]) :
              (cs.shapes[p][j] = o /\ cs.shapes[p][k] = o) => j = k
        /\ (env.alive[o] /\ is_shape_known(cs, o)) =>
              \A p \in Plots :
                  register_shape(cs, env, p, o)
                     = [cs |-> cs, fx |-> NoFx("register_shape", o)]

\* C11 as stated (Spec): the panel owns neither a source image nor a target:
\* a marker or shape that is on no plot and that the application holds no more
\* is collected, and the panel's reference to it reads as expired.
C11_PanelOwnsNothing ==
    \A o \in Objs :
        (~env.held[o] /\ env.objPlot[o] = NoPlot) =>
            /\ ~env.alive[o]
            /\ cs.last_obj = o => get_last_obj(cs, env) = NoObj

\* C11 amended (Spec): last_obj owns nothing: a marker or shape that is on no
\* plot, that the application holds no more and that is in no list of the
\* registry is collected, and last_obj reads as expired if it refers to it;
\* the registry does own its shapes: a shape in the registry stays alive.  Each
\* key of known_items is an image that is on a plot, so the key never outlives
\* the plot's own reference.
C11_OnlyRegistryOwns ==
    /\ \A o \in Objs :
        (~env.held[o] /\ env.objPlot[o] = NoPlot /\ ~is_shape_known(cs, o)) =>
            /\ ~env.alive[o]
            /\ cs.last_obj = o => get_last_obj(cs, env) = NoObj
    /\ \A o \in Shapes : is_shape_known(cs, o) => env.alive[o]
    /\ \A k \in 1..Len(cs.known_items) :
         /\ env.itemPlot[cs.known_items[k].key] # NoPlot
         /\ cs.known_items[k].curve.source = cs.known_items[k].key

\* C11 happens: update_plot() has just found its last target, a registered
\* shape the application had dropped, on no plot and unregistered it; the
\* shape is collected and last_obj reads as expired
C11_Witness ==
    /\ fx.handler = "refresh"
    /\ cs.last_obj \in Shapes
    /\ ~env.held[cs.last_obj] /\ ~env.alive[cs.last_obj]
    /\ get_last_obj(cs, env) = NoObj

\* C13 as stated (SpecModes): every refresh that gets as far as the loop over
\* the curves (its target is live and on a plot) ends with exactly one
\* do_autoscale of the panel when autoscale_mode is on and with none when it
\* is off.
C13_OneAutoscalePerRefresh ==
    LET obj == get_last_obj(cs, env)
        r == update_plot(cs, env, NoObj, "refresh")
    IN  (obj # NoObj /\ env.objPlot[obj] # NoPlot) =>
            r.fx.autoscaled = IF cs.autoscale_mode THEN 1 ELSE 0

\* C14 as stated (ItemSpec): a plot-mode extractor called for a marker or shape
\* whose plot holds no eligible image item returns the empty profile and
\* raises nothing.
C14_NoImageGivesEmptyProfile ==
    \A o \in Objs, lut \in BOOLEAN :
        (env.alive[o] /\ env.objPlot[o] # NoPlot
           /\ PlanarItems(env, env.objPlot[o]) = {}) =>
            PlotSection(env, o, lut) = [raised |-> FALSE, x |-> <<>>, y |-> <<>>]

\* C16 (CurveSpec): for an x, y or radial curve, when the computed y array
\* is empty or holds nothing but NaN, the curve gets zero-length x and y;
\* otherwise it gets exactly the computed x and y arrays (as y and x for the
\* inverted y curve), NaN entries included.
C16_FallbackOrPassThrough ==
    fx.handler = "set_section" =>
        LET got == IF Inverted(item.kind)
                   THEN [x |-> item.data.y, y |-> item.data.x]
                   ELSE item.data
        IN  IF Len(fx.arg.y) = 0 \/ \A k \in 1..Len(fx.arg.y) : fx.arg.y[k] = NaN
            THEN got = EmptyData
            ELSE got = fx.arg

\* C16 happens: a radial curve was given a profile with a NaN entry and a
\* number and holds it
C16_Witness ==
    /\ fx.handler = "set_section"
    /\ item.kind = "ra"
    /\ \E k \in 1..Len(fx.arg.y) : IsNaN(fx.arg.y[k])
    /\ \E k \in 1..Len(fx.arg.y) : ~IsNaN(fx.arg.y[k])
    /\ item.data # EmptyData

\* C15 (SectionSpec): for every rectangle with x0 = x1 or y0 = y1, under both
\* directions of the vertical axis, the rectangle-averaged x-section and
\* y-section extractors return an empty profile (zero-length x and y) and do
\* not raise.
C15_DegenerateRectGivesEmpty ==
    (/\ fx.handler = "average_section"
     /\ (fx.arg.rect[1] = fx.arg.rect[3] \/ fx.arg.rect[2] = fx.arg.rect[4]))
        => fx.emitted = EmptyProfile

\* C17 (SectionSpec): for every rectangle, whichever order its corners are
\* given in and under both directions of the vertical axis, the x array of a
\* rectangle-averaged x-section or y-section is ascending in data coordinates,
\* and the same rectangle gives the same (x, y) under both directions.
C17_AscendingAndDirectionFree ==
    (fx.handler = "average_section" /\ ~fx.emitted.raised) =>
        /\ \A k \in 1..(Len(fx.emitted.x) - 1) :
              fx.emitted.x[k].num < fx.emitted.x[k + 1].num
        /\ fx.emitted =
              (IF fx.arg.axis = "x"
               THEN get_plot_average_x_section(fx.arg.rect, ~fx.arg.ydir,
                                               fx.arg.hasimg)
               ELSE get_plot_average_y_section(fx.arg.rect, ~fx.arg.ydir,
                                               fx.arg.hasimg))

\* C18 (SectionSpec): every profile an extractor returns has x and y of the
\* same length, also a radial profile whose centre row index plus length goes
\* past the end of the source's coordinate lookup.
C18_SameLength ==
    fx.handler \in {"average_section", "radial_section"}
        => Len(fx.emitted.x) = Len(fx.emitted.y)

\* C20 (SectionSpec): compute_radial_section returns an empty profile without
\* calling the binning kernel exactly when dx^2 + dy^2 < 2 for the corner
\* pixel-index deltas, where the integer radius is zero; for every other pair
\* of deltas the radius is at least 1 and the kernel is called.
C20_ZeroRadiusIffTiny ==
    fx.handler = "radial_section" =>
        LET dx == fx.arg.ix1 - fx.arg.ix0
            dy == fx.arg.iy1 - fx.arg.iy0
        IN  IF dx * dx + dy * dy < 2
            THEN /\ iradius(dx, dy) = 0
                 /\ ~fx.emitted.binned
                 /\ fx.emitted.x = <<>> /\ fx.emitted.y = <<>>
            ELSE /\ iradius(dx, dy) >= 1
                 /\ fx.emitted.binned
                 /\ Len(fx.emitted.y) = iradius(dx, dy) + 1

\* C20 happens: the corners are one pixel apart on both axes, the smallest
\* rectangle that is binned
C20_Witness ==
    /\ fx.handler = "radial_section"
    /\ fx.arg.ix1 - fx.arg.ix0 = 1 /\ fx.arg.iy0 - fx.arg.iy1 = 1
    /\ fx.emitted.binned
    /\ Len(fx.emitted.y) = 2

\* C19 (ItemSpec): the section an x or y curve is recomputed from depends only
\* on whether the target has get_rect and on perimage_mode: a rectangle gives
\* the averaged section and a point the row or column section, of the curve's
\* source image in per-image mode and of the target's plot otherwise; the
\* curve's apply_lut is handed to the extractor unchanged in all four cases.
C19_ExtractorDispatch ==
    (/\ fx.handler = "update_item"
     /\ fx.emitted # <<>>
     /\ item.kind \in {"x", "y"}
     /\ item.data # EmptyData) =>
        LET secty == IF Inverted(item.kind) THEN item.data.x ELSE item.data.y
            v == secty[1]
        IN  /\ v.avg = get_rectangular_area(fx.arg)
            /\ v.mode = (IF item.perimage_mode THEN "image" ELSE "plot")
            /\ v.from = (IF item.perimage_mode THEN item.source
                         ELSE env.objPlot[fx.arg])
            /\ v.lut = (IF item.apply_lut THEN env.lut ELSE RawLut)

\* C19 happens: a y curve in whole-plot mode with apply_lut set has been
\* recomputed for a rectangle
C19_Witness ==
    /\ fx.handler = "update_item"
    /\ fx.arg \in Shapes
    /\ item.kind = "y"
    /\ ~item.perimage_mode /\ item.apply_lut
    /\ fx.emitted # <<>>
    /\ item.data # EmptyData
    /\ item.data.x[1].mode = "plot" /\ item.data.x[1].avg

\* C21 (SectionSpec): in the radial profile a shell r of 0..radius with no
\* surviving member pixel (none at rounded distance r, or all of them masked)
\* has no entry in the output: y has one entry per non-empty shell and may be
\* shorter than radius + 1.
C21_EmptyShellsOmitted ==
    (fx.handler = "radial_section" /\ fx.emitted.binned) =>
        LET im == fx.arg.im
            ixc == (fx.arg.ix0 + fx.arg.ix1) \div 2
            iyc == (fx.arg.iy0 + fx.arg.iy1) \div 2
            r == iradius(fx.arg.ix1 - fx.arg.ix0, fx.arg.iy1 - fx.arg.iy0)
            full == {k \in 0..r : ShellPixels(im, ixc, iyc, k) \ im.mask # {}}
        IN  Len(fx.emitted.y) = Cardinality(full)

\* C22 (SectionSpec): for an image whose pixels all hold the same value v
\* (a plain array, or a masked array whose mask is all false), every entry of
\* the radial profile's y array is v, for every rectangle inside the image
\* with a radius that is not zero.
C22_UniformImageGivesConstant ==
    (/\ fx.handler = "radial_section"
     /\ fx.arg.im.uniform /\ fx.arg.im.mask = {}
     /\ fx.emitted.binned) =>
        /\ Len(fx.emitted.y) >= 2
        /\ \A k \in 1..Len(fx.emitted.y) :
              /\ fx.emitted.y[k].mode = "mean"
              /\ fx.emitted.y[k].n >= 1
              /\ fx.emitted.y[k].sum = Data(fx.arg.im, 0, 0) * fx.emitted.y[k].n

\* C22 happens: a radius of 2 on a uniform masked array with an all-false
\* mask, with more than one pixel in the outer shell
C22_Witness ==
    /\ fx.handler = "radial_section"
    /\ fx.arg.im.uniform /\ fx.arg.im.masked /\ fx.arg.im.mask = {}
    /\ Len(fx.emitted.y) = 3
    /\ fx.emitted.y[3].mode = "mean" /\ fx.emitted.y[3].n > 1

C24_RadialStartsAtZero ==
    (fx.handler = "radial_section" /\ fx.emitted.y # <<>>) =>
        /\ fx.emitted.x # <<>>
        /\ fx.emitted.x[1] = 0

\* C25 (ExportSpec): when writing the export file fails with an I/O error,
\* export() tells the user with one notification, does not write again and
\* lets no error leave the call.
C25_ExportFailureReported ==
    (/\ fx.handler = "export"
     /\ fx.emitted.writes > 0
     /\ fx.arg.outcome = "IOError") =>
        /\ fx.emitted.warnings + fx.emitted.criticals = 1
        /\ fx.emitted.writes = 1
        /\ ~fx.emitted.raised

\* C26 (PyplotSpec): figure() without argument makes a new figure: after any
\* sequence of figure(), figure(N), title() calls and window close events the
\* figure it returns was not in the registry before the call, and it is the
\* current figure, with no current axes.
C26_FigureMakesNew ==
    (fx.handler = "figure" /\ fx.arg = NoTitle) =>
        /\ ~fx.emitted.wasreg
        /\ py.current_fig = fx.emitted.fig
        /\ py.current_axes = NoFig

\* C27 (PyplotSpec): close closes the addressed figure and raises nothing:
\* after close(N) no figure is registered under N (and none was made for
\* it), after close() the figure that was current is not in the registry,
\* and after close(all=True) the registry is empty and the current figure and
\* the current axes are unset.
C27_CloseRemovesFigure ==
    fx.handler = "close" =>
        /\ ~fx.raised
        /\ ~fx.emitted.isnew
        /\ fx.arg.all =>
              /\ \A t \in Titles : py.figures[t] = NoFig
              /\ py.current_fig = NoFig /\ py.current_axes = NoFig
        /\ (~fx.arg.all /\ fx.arg.N # NoTitle) => py.figures[fx.arg.N] = NoFig
        /\ (~fx.arg.all /\ fx.arg.N = NoTitle) =>
              \A t \in Titles :
                  py.figures[t] = NoFig
                    \/ py.figures[t] # fx.emitted.wascurrent

\* C28 (SpecModes): a LUT-changed event refreshes the current target if and
\* only if the panel's apply_lut flag is set.  With the flag set the step is
\* update_plot() under the new LUT: with a live target on a plot and no
\* exception the first curve is recomputed and holds the profile under the
\* new LUT.  With the flag unset the panel and its curves are as before and
\* nothing is recomputed, rescaled or autoscaled.
C28_LutChangedRefreshesIffApplyLut ==
    [][fx'.handler = "lut_changed" =>
         LET obj == get_last_obj(cs, env)
             r == update_plot(cs, [env EXCEPT !.lut = env'.lut], NoObj,
                              "lut_changed")
         IN  IF cs.apply_lut
             THEN /\ cs' = r.cs /\ fx' = r.fx
                  /\ (/\ obj # NoObj /\ env.objPlot[obj] # NoPlot
                      /\ Len(cs.known_items) >= 1 /\ ~fx'.raised) =>
                        /\ InSeq(cs.known_items[1].key, fx'.emitted)
                        /\ cs'.known_items[1].curve.data
                             = update_curve_data(cs'.known_items[1].curve,
                                                 env', obj).curve.data
             ELSE /\ cs' = cs
                  /\ fx' = NoFx("lut_changed", NoObj)]_vars

\* C28 happens: the contrast was changed while apply_lut was set and a marker
\* was on the plot, and both curves were recomputed under the new LUT
C28_Witness ==
    /\ fx.handler = "lut_changed"
    /\ cs.apply_lut /\ env.lut # 0
    /\ Len(fx.emitted) = 2
    /\ cs.known_items[1].curve.data # EmptyData

\* C29 (SpecActive): an active-item-changed event on a shown panel makes the plot's
\* new active item the current target and recomputes the profiles for it if
\* and only if that item is a registered shape: then last_obj is the item and
\* every curve a refresh works on (the first one, or all in per-image mode) is
\* recomputed; for any other active item (a marker, a shape in no registry,
\* none) the panel, its last target and its curves are as before and nothing
\* is recomputed.
C29_ActiveItemBecomesTarget ==
    [][(fx'.handler = "shape_changed" /\ env' = env /\ env.visible) =>
         LET o == fx'.arg
         IN  IF o # NoObj /\ is_shape_known(cs, o)
             THEN /\ cs'.last_obj = o
                  /\ ~fx'.raised
                  /\ \A k \in 1..Len(cs.known_items) :
                       (cs.perimage_mode \/ k = 1) =>
                          InSeq(cs.known_items[k].key, fx'.emitted)
             ELSE /\ cs' = cs
                  /\ fx' = NoFx("shape_changed", o)]_vars

\* the signals of a trace, in the order they were emitted
RECURSIVE Signals(_)
Signals(trace) ==
    IF trace = <<>> THEN <<>>
    ELSE IF Head(trace) \in {"SIG_ITEM_MOVED", "SIG_ANNOTATION_CHANGED"}
    THEN <<Head(trace)>> \o Signals(Tail(trace))
    ELSE Signals(Tail(trace))

\* C30 (AnnotSpec): move_point_to and move_local_shape on a shape that has a
\* plot emit SIG_ANNOTATION_CHANGED only after the geometry and the label
\* position were updated, move_local_shape after SIG_ITEM_MOVED; every
\* receiver reads the new rectangle during the emit, and the curves the panel
\* recomputes for a registered shape hold the profile at the new rectangle.
\* With no plot the two methods emit nothing, and move_shape never emits.
C30_AnnotationChangedAfterUpdate ==
    fx.handler \in {"move_point_to", "move_local_shape", "move_shape"} =>
        LET o == fx.arg
            n == Len(fx.trace)
        IN  /\ fx.handler = "move_shape" => Signals(fx.trace) = <<>>
            /\ env.objPlot[o] = NoPlot =>
                  /\ Signals(fx.trace) = <<>>
                  /\ fx.panel = NoFx("shape_changed", o)
            /\ (fx.handler # "move_shape" /\ env.objPlot[o] # NoPlot) =>
                  /\ Signals(fx.trace)
                       = IF fx.handler = "move_point_to"
                         THEN <<"SIG_ANNOTATION_CHANGED">>
                         ELSE <<"SIG_ITEM_MOVED", "SIG_ANNOTATION_CHANGED">>
                  /\ \A k \in 1..n :
                       fx.trace[k] \in {"SIG_ITEM_MOVED", "SIG_ANNOTATION_CHANGED"} =>
                          /\ \E i \in 1..(k-1) : fx.trace[i] = "shape"
                          /\ \E j \in 1..(k-1) : fx.trace[j] = "label"
                  /\ \A k \in 1..Len(fx.seen) : fx.seen[k] = env.objPos[o]
                  /\ is_shape_known(cs, o) => cs.last_obj = o
                  /\ \A k \in 1..Len(cs.known_items) :
                       InSeq(cs.known_items[k].key, fx.panel.emitted) =>
                          cs.known_items[k].curve.data
                            = update_curve_data(cs.known_items[k].curve,
                                                env, o).curve.data

\* C30 happens: a registered shape on a plot with an image was moved with
\* move_local_shape away from its first rectangle and the panel recomputed a
\* curve during the emit
C30_Witness ==
    /\ fx.handler = "move_local_shape"
    /\ env.objPlot[fx.arg] # NoPlot
    /\ is_shape_known(cs, fx.arg)
    /\ env.objPos[fx.arg] # 0
    /\ Len(fx.panel.emitted) >= 1

\* C31 (Spec): a refresh whose target is on no plot, be it update_plot(target)
\* or update_plot() with that target supplied last, recomputes nothing, leaves
\* every curve's data and visibility alone, does not autoscale, and leaves the
\* target in no registry: is_shape_known(target) is false right after it.
C31_DetachedTargetUnregistered ==
    \A o \in Objs :
        (env.alive[o] /\ env.objPlot[o] = NoPlot) =>
            \A r \in {update_plot(cs, env, o, "update_plot")}
                     \cup {update_plot(cs, env, NoObj, "refresh") :
                              x \in {y \in {o} : get_last_obj(cs, env) = o}} :
                /\ r.fx.emitted = <<>> /\ r.fx.rescaled = <<>>
                /\ r.fx.autoscaled = 0 /\ ~r.fx.raised
                /\ r.cs.known_items = cs.known_items
                /\ ~is_shape_known(r.cs, o)

C33_SwapFixedPerKind ==
    [][/\ item'.kind = item.kind
       /\ (fx'.handler = "set_section" /\ item.kind \in {"x", "y"}) =>
             LET sectx == fx'.arg.x
                 secty == fx'.arg.y
             IN  IF Len(secty) = 0 \/ AllNaN(secty)
                 THEN item'.data.x = <<>> /\ item'.data.y = <<>>
                 ELSE IF item.kind = "y"
                 THEN item'.data.x = secty /\ item'.data.y = sectx
                 ELSE item'.data.x = sectx /\ item'.data.y = secty]_vars

\* C33 happens: a y curve was given a profile of two numbers and holds the
\* numbers as its x data and their coordinates as its y data
C33_Witness ==
    /\ fx.handler = "set_section"
    /\ item.kind = "y"
    /\ Len(fx.arg.y) = 2 /\ ~IsNaN(fx.arg.y[1]) /\ ~IsNaN(fx.arg.y[2])
    /\ item.data.x = fx.arg.y /\ item.data.y = fx.arg.x
    /\ item.data.x # item.data.y

\* C34 (SpecModes): an image-set-changed event recomputes no profile: right
\* after items_changed every curve of known_items holds no data, also when a
\* live target on a plot is bound, and the last target and the shape registry
\* are as before; and the curves stay as they are through every later event
\* that triggers no refresh.
C34_ItemsChangedLeavesCurvesEmpty ==
    [][/\ fx'.handler = "items_changed" =>
             /\ \A k \in 1..Len(cs'.known_items) :
                   cs'.known_items[k].curve.data = EmptyData
             /\ fx'.emitted = <<>> /\ fx'.rescaled = <<>>
             /\ cs'.last_obj = cs.last_obj
             /\ cs'.shapes = cs.shapes
       /\ fx'.handler \notin {"items_changed", "refresh", "lut_changed",
                              "update_plot"} =>
             cs'.known_items = cs.known_items
       /\ (fx'.handler \in {"refresh", "lut_changed", "update_plot"}
             /\ Len(cs'.known_items) = Len(cs.known_items)) =>
             \A k \in 1..Len(cs.known_items) :
                 cs'.known_items[k].curve.data # cs.known_items[k].curve.data
                    => InSeq(cs.known_items[k].key, fx'.emitted)]_vars

\* C34 happens: an image was added to a plot on which a live marker, the last
\* target, sits, and the two rebuilt curves are empty
C34_Witness ==
    /\ fx.handler = "items_changed"
    /\ Len(cs.known_items) = 2
    /\ get_last_obj(cs, env) # NoObj
    /\ env.objPlot[get_last_obj(cs, env)] = "p1"
    /\ \A k \in 1..2 : cs.known_items[k].curve.data = EmptyData

\* C35 (Spec): update_plot(obj) records obj as the last target before it looks
\* whether obj is on a plot.  After update_plot(obj) for an object on no plot
\* the last target is obj, and every refresh without target that follows
\* (update_plot(), a mode toggle, a LUT change) recomputes nothing and leaves
\* every curve as it is, also while another target is on a plot and
\* registered.
C35_DetachedTargetRecorded ==
    \A o \in Objs :
        (env.alive[o] /\ env.objPlot[o] = NoPlot) =>
            LET r == update_plot(cs, env, o, "update_plot")
            IN  /\ r.cs.last_obj = o
                /\ r.fx.emitted = <<>>
                /\ \A b \in BOOLEAN :
                     \A t \in {update_plot(r.cs, env, NoObj, "refresh"),
                               toggle_perimage_mode(r.cs, env, b),
                               toggle_autoscale(r.cs, env, b),
                               toggle_apply_lut(r.cs, env, b),
                               lut_changed([r.cs EXCEPT !.apply_lut = b], env)} :
                        /\ t.fx.emitted = <<>> /\ t.fx.rescaled = <<>>
                        /\ t.fx.autoscaled = 0
                        /\ t.cs.known_items = cs.known_items
                        /\ t.cs.last_obj = o

\* C35 happens: update_plot(marker) has just run for a marker on no plot on a
\* shown panel with a curve, while a registered shape is on a plot
C35_Witness ==
    /\ fx.handler = "update_plot"
    /\ fx.arg \in Markers /\ env.objPlot[fx.arg] = NoPlot
    /\ cs.last_obj = fx.arg
    /\ env.visible /\ Len(cs.known_items) > 0
    /\ \E s \in Shapes : env.objPlot[s] # NoPlot /\ is_shape_known(cs, s)

C38_GlobalsAgree ==
    /\ py.current_fig = NoFig
          \/ \E t \in Titles : py.figures[t] = py.current_fig
    /\ \A t \in Titles :
          py.figures[t] # NoFig => py.title[py.figures[t]] = t
    /\ py.current_axes = NoFig
          \/ (py.current_fig # NoFig /\ py.current_axes = py.current_fig)

\* a window was closed, the figure left in the registry was renamed and holds
\* the current axes made by subplot
C38_Witness ==
    /\ fx.handler = "subplot"
    /\ py.current_fig # NoFig /\ py.current_axes = py.current_fig
    /\ py.figures[TextTitle] = py.current_fig
    /\ \E f \in Figs : py.wintitle[f] # NoTitle /\ ~py.open[f]
                        /\ f # py.current_fig

\* C39 (ItemSpec): update_item of a radially-averaged item with a point marker
\* leaves the item, its curve data included, as it was; when the item is on
\* its plot, the plot is visible and the source image is alive, the call
\* still emits the curve-changed signal for the item and raises nothing.
\* update_item of a radially-averaged item rescales no axis, whatever the
\* target and the autoscale mode.
C39_RadialKeepsDataOnMarker ==
    [][(fx'.handler = "update_item" /\ item.kind = "ra") =>
          /\ fx'.rescaled = <<>>
          /\ fx'.arg \in Markers =>
                /\ item' = item
                /\ ~fx'.raised
                /\ (/\ item.attached /\ env.visible
                    /\ get_source_image(item, env) # NoImg)
                       => fx'.emitted = <<item.source>>]_vars

\* a radial item in manual-scale mode that holds a profile computed for a
\* shape has been refreshed with a marker: the signal went out, the profile
\* is still there
C39_Witness ==
    /\ fx.handler = "update_item" /\ fx.arg \in Markers
    /\ item.kind = "ra" /\ ~item.autoscale_mode
    /\ fx.emitted = <<item.source>>
    /\ item.data # EmptyData
====
